---- MODULE Spec2Model ----
(***************************************************************************)
(* A model of ghard: the vCard aggregator (pkg/vcard), the configuration   *)
(* validation (internal/config), the command runner (cmd/ghard, app.Run),  *)
(* the derived views of internal/app (filter, sort key, display name,      *)
(* sorting, CSV and JSON export) and the field normalizers of pkg/vcard    *)
(* (birthday, field type, address).                                        *)
(***************************************************************************)
EXTENDS Integers, Sequences, FiniteSets, Bags, TLC

VARIABLES
    mode,        \* which entry point runs: "api", "main", "filter", "name", "sort",
                 \* "birthday", "type", "address", "export"
    pc,          \* position of the run
    fs,          \* the file system: path name -> [exists, files]
    config,      \* Config.AddressBooks: address book name -> path
    command,     \* the command kong parsed: "list" or "export"
    paths,       \* addressBookPaths, the argument of LoadContacts
    pathIdx,     \* position of the range loop of LoadContacts
    contacts,    \* the local slice `contacts` of LoadContacts
    loadErrors,  \* the local slice `loadErrors` of LoadContacts
    pathResults, \* history: what loadContactsFromPath returned for each path
    result,      \* what LoadContacts returned: [contacts, err]
    exitCode,    \* the exit status of main: -1 while running
    output,      \* what the command printed: [kind, seq, bag]
    contact,     \* the vcard.Contact a derived view is computed from
    filter,      \* the filter terms of the command line
    list,        \* the slice handed to a sort
    reverse,     \* the --reverse flag
    ret,         \* what the view returned: [op, val]
    arg,         \* the other arguments of the call and what it reads of its environment
    disk         \* the files an export may write: path name -> [kind, content]

loadVars == <<fs, config, command, paths, pathIdx, contacts, loadErrors,
              pathResults, result, exitCode, output>>

viewVars == <<contact, filter, list, reverse, ret, arg, disk>>

----------------------------------------------------------------------------
(* Bounds *)

\* the largest number of components of an ADR value
MaxParts == 8
\* the longest slice of contacts handed to an export
MaxExported == 2
\* the longest list of paths handed to LoadContacts
MaxPaths == 2
\* the number of files in the whole file system
MaxFiles == 3
\* the number of card blocks the decoder yields from one file before EOF or an error
MaxCards == 1

\* the number of email entries, and of phone entries, of a contact
MaxEntries == 1
\* the number of filter terms of a command line
MaxTerms == 2
\* the length of a slice handed to a sort
MaxContacts == 3

PathNames == {"p1", "p2"}
BookNames == {"personal", "work"}
\* an address book whose path is the empty string (config.go:161)
EmptyPath == ""

----------------------------------------------------------------------------
(* Sequence helpers *)

RECURSIVE Concat(_)
Concat(ss) == IF ss = <<>> THEN <<>> ELSE Head(ss) \o Concat(Tail(ss))

RECURSIVE SumSeq(_)
SumSeq(ns) == IF ns = <<>> THEN 0 ELSE Head(ns) + SumSeq(Tail(ns))

SeqsUpTo(S, n) == UNION {[1..k -> S] : k \in 0..n}

Range(s) == {s[k] : k \in DOMAIN s}

\* the sequences that list every element of the finite set S once
Orderings(S) == {s \in [1..Cardinality(S) -> S] : Range(s) = S}

----------------------------------------------------------------------------
(* The file system.  A file is what the walk and the decoder make of it:   *)
(* whether its name ends in .vcf, how many card blocks Decode yields, and  *)
(* whether the decoding then ends with an error instead of io.EOF (an      *)
(* os.Open failure is an error before the first card).                     *)

Files ==
    {f \in [vcf : BOOLEAN, cards : 0..MaxCards, err : BOOLEAN] :
        ~f.vcf => (f.cards = 0 /\ ~f.err)}

NoDir == [exists |-> FALSE, files |-> <<>>]

DirEntries == {NoDir} \cup {[exists |-> TRUE, files |-> fl] : fl \in SeqsUpTo(Files, MaxFiles)}

FileSystems ==
    {f \in [PathNames -> DirEntries] :
        SumSeq([k \in 1..2 |-> Len(f[IF k = 1 THEN "p1" ELSE "p2"].files)]) <= MaxFiles}

----------------------------------------------------------------------------
(* pkg/vcard: processVCardFile, loadContactsFromPath, LoadContacts *)

\* One Contact per decoded card block: FileName is the file's path, card the
\* block's position in the file (it stands for the block's field values).
Contact(path, file, k) == [FileName |-> <<path, file>>, card |-> k]

\* processVCardFile appends to the caller's slice while it decodes, and
\* reports an error on a decode error or when no block was decoded.
processVCardFile(path, file, f, cs) ==
    LET decoded == [k \in 1..f.cards |-> Contact(path, file, k)]
        appended == cs \o decoded
    IN  IF f.err
        THEN [contacts |-> appended, err |-> TRUE]
        ELSE IF f.cards = 0
             THEN [contacts |-> appended, err |-> TRUE]
             ELSE [contacts |-> appended, err |-> FALSE]

\* the WalkDir callback, applied to the file at position `file` of `path`
WalkFn(w, path, file, f) ==
    IF ~f.vcf
    THEN w
    ELSE LET r == processVCardFile(path, file, f, w.contacts)
         IN  IF r.err
             THEN [w EXCEPT !.contacts = r.contacts,
                            !.vcfCount = @ + 1,
                            !.errorCount = @ + 1]
             ELSE [w EXCEPT !.contacts = r.contacts,
                            !.vcfCount = @ + 1,
                            !.processedCount = @ + 1]

\* filepath.WalkDir: the callback on the first n files, in lexical order
RECURSIVE WalkDir(_, _, _)
WalkDir(path, files, n) ==
    IF n = 0
    THEN [contacts |-> <<>>, vcfCount |-> 0, processedCount |-> 0, errorCount |-> 0]
    ELSE WalkFn(WalkDir(path, files, n - 1), path, n, files[n])

NoContacts == [contacts |-> <<>>, err |-> TRUE]

\* a slip: a directory none of whose .vcf files could be processed is a success
loadContactsFromPath_NoProcessedCheck(d, path) ==
    IF ~d.exists
    THEN NoContacts
    ELSE LET w == WalkDir(path, d.files, Len(d.files))
         IN  IF w.vcfCount = 0
             THEN NoContacts
             ELSE [contacts |-> w.contacts, err |-> FALSE]

loadContactsFromPath(d, path) ==
    IF ~d.exists
    THEN NoContacts
    ELSE LET w == WalkDir(path, d.files, Len(d.files))
         IN  IF w.vcfCount = 0
             THEN NoContacts
             ELSE IF w.processedCount = 0 /\ w.errorCount > 0
                  THEN NoContacts
                  ELSE [contacts |-> w.contacts, err |-> FALSE]

\* a slip: any failed path makes the whole load fail
LoadContactsResult_AnyError(cs, errs) ==
    IF Len(errs) > 0
    THEN [contacts |-> <<>>, err |-> TRUE]
    ELSE [contacts |-> cs, err |-> FALSE]

\* a slip: a load that collected no contact fails
LoadContactsResult_NoContacts(cs, errs) ==
    IF Len(cs) = 0
    THEN [contacts |-> <<>>, err |-> TRUE]
    ELSE [contacts |-> cs, err |-> FALSE]

\* the return statement of LoadContacts
LoadContactsResult(cs, errs) ==
    IF Len(errs) > 0 /\ Len(cs) = 0
    THEN [contacts |-> <<>>, err |-> TRUE]
    ELSE [contacts |-> cs, err |-> FALSE]

NoResult == [contacts |-> <<>>, err |-> FALSE]
NoOutput == [kind |-> "none", seq |-> <<>>, bag |-> EmptyBag]

\* a slip: contacts already collected are not appended again
AppendContacts_Dedup(cs, r) ==
    cs \o SelectSeq(r.contacts, LAMBDA c : c \notin Range(cs))

\* line 315: the path's contacts are appended, duplicates included
AppendContacts(cs, r) == cs \o r.contacts

\* the range loop of LoadContacts over the first n paths: the two local slices
RECURSIVE LoadContactsLoop(_, _, _)
LoadContactsLoop(f, ps, n) ==
    IF n = 0
    THEN [contacts |-> <<>>, loadErrors |-> <<>>]
    ELSE LET l == LoadContactsLoop(f, ps, n - 1)
             r == loadContactsFromPath(f[ps[n]], ps[n])
         IN  IF r.err
             THEN [l EXCEPT !.loadErrors = Append(@, ps[n])]
             ELSE [l EXCEPT !.contacts = AppendContacts(@, r)]

\* LoadContacts as one call: [contacts, err]
LoadContacts(f, ps) ==
    LET l == LoadContactsLoop(f, ps, Len(ps))
    IN  LoadContactsResult(l.contacts, l.loadErrors)

\* one iteration of the range loop of LoadContacts
LoadPath ==
    /\ pc = "load"
    /\ pathIdx <= Len(paths)
    /\ LET path == paths[pathIdx]
           r == loadContactsFromPath(fs[path], path)
       IN  /\ pathResults' = Append(pathResults, r)
           /\ IF r.err
              THEN /\ loadErrors' = Append(loadErrors, path)
                   /\ contacts' = contacts
              ELSE /\ contacts' = AppendContacts(contacts, r)
                   /\ loadErrors' = loadErrors
    /\ pathIdx' = pathIdx + 1
    /\ UNCHANGED <<mode, pc, fs, config, command, paths, result, exitCode, output>>
    /\ UNCHANGED viewVars

\* the end of LoadContacts: the aggregated error, or the collected contacts
LoadContactsReturn ==
    /\ pc = "load"
    /\ pathIdx > Len(paths)
    /\ result' = LoadContactsResult(contacts, loadErrors)
    /\ pc' = IF mode = "main" THEN "cmd" ELSE "done"
    /\ UNCHANGED <<mode, fs, config, command, paths, pathIdx, contacts, loadErrors,
                   pathResults, exitCode, output>>
    /\ UNCHANGED viewVars

----------------------------------------------------------------------------
(* internal/config: Validate, GetAddressBookPaths; cmd/ghard: main *)

Configs == UNION {[B -> PathNames \cup {EmptyPath}] : B \in SUBSET BookNames}

\* a slip: the existence of the path is not checked
validateAddressBook_NoStat(f, path) == path = EmptyPath

\* validateAddressBook: TRUE when the address book is rejected
validateAddressBook(f, path) ==
    IF path = EmptyPath
    THEN TRUE
    ELSE ~f[path].exists

\* Config.Validate: TRUE when validation fails
Validate(f, c) ==
    IF DOMAIN c = {}
    THEN TRUE
    ELSE \E name \in DOMAIN c : validateAddressBook(f, c[name])

\* Config.GetAddressBookPaths ranges over a map: the paths in one of the
\* orders the iteration can take
GetAddressBookPaths(c) ==
    {[k \in 1..Cardinality(DOMAIN c) |-> c[order[k]]] : order \in Orderings(DOMAIN c)}

\* a first call of GetAddressBookPaths on a configuration
GetAddressBookPathsCall ==
    /\ mode = "paths"
    /\ pc = "call"
    /\ paths' \in GetAddressBookPaths(config)
    /\ pc' = "called"
    /\ UNCHANGED <<mode, fs, config, command, pathIdx, contacts, loadErrors,
                   pathResults, result, exitCode, output>>
    /\ UNCHANGED viewVars

\* a second call on the same configuration, and what LoadContacts makes of
\* the paths of either call
GetAddressBookPathsAgain ==
    /\ mode = "paths"
    /\ pc = "called"
    /\ \E again \in GetAddressBookPaths(config) :
            ret' = [op |-> "GetAddressBookPaths",
                    first |-> paths,
                    second |-> again,
                    firstLoad |-> LoadContacts(fs, paths),
                    secondLoad |-> LoadContacts(fs, again)]
    /\ pc' = "done"
    /\ UNCHANGED <<mode, contact, filter, list, reverse, arg, disk>>
    /\ UNCHANGED loadVars

BagOfSeq(s) == [x \in Range(s) |-> Cardinality({k \in DOMAIN s : s[k] = x})]

\* main: config.Load, then on success app.Run up to the call of LoadContacts
ConfigLoad ==
    /\ mode = "main"
    /\ pc = "config"
    /\ IF Validate(fs, config)
       THEN /\ exitCode' = 1
            /\ pc' = "exit"
            /\ paths' = paths
       ELSE /\ exitCode' = exitCode
            /\ pc' = "load"
            /\ paths' \in GetAddressBookPaths(config)
    /\ UNCHANGED <<mode, fs, config, command, pathIdx, contacts, loadErrors,
                   pathResults, result, output>>
    /\ UNCHANGED viewVars

\* ListContacts with no filter, after loadAndFilterContacts returned
ListContacts ==
    /\ mode = "main"
    /\ pc = "cmd"
    /\ command = "list"
    /\ IF result.err
       THEN /\ exitCode' = 1
            /\ output' = output
       ELSE /\ exitCode' = 0
            /\ output' = [kind |-> "list", seq |-> <<>>, bag |-> BagOfSeq(result.contacts)]
    /\ pc' = "exit"
    /\ UNCHANGED <<mode, fs, config, command, paths, pathIdx, contacts, loadErrors,
                   pathResults, result>>
    /\ UNCHANGED viewVars

\* ExportContacts with no filter, to standard output, format csv or json
ExportContacts ==
    /\ mode = "main"
    /\ pc = "cmd"
    /\ command = "export"
    /\ IF result.err
       THEN /\ exitCode' = 1
            /\ output' = output
       ELSE /\ exitCode' = 0
            /\ output' = [kind |-> "export", seq |-> result.contacts,
                          bag |-> BagOfSeq(result.contacts)]
    /\ pc' = "exit"
    /\ UNCHANGED <<mode, fs, config, command, paths, pathIdx, contacts, loadErrors,
                   pathResults, result>>
    /\ UNCHANGED viewVars

----------------------------------------------------------------------------
(* Strings.  A Go string is the sequence of its characters, each written   *)
(* as a one-character string; the alphabet is ASCII: letters, digits, the  *)
(* space and punctuation.  Sorting compares letters, digits, space, comma  *)
(* and full stop by their ASCII codes, as Go compares bytes.               *)

UpperCase == <<"A", "B", "C", "D", "E", "F", "G", "H", "I", "J", "K", "L", "M",
               "N", "O", "P", "Q", "R", "S", "T", "U", "V", "W", "X", "Y", "Z">>
LowerCase == <<"a", "b", "c", "d", "e", "f", "g", "h", "i", "j", "k", "l", "m",
               "n", "o", "p", "q", "r", "s", "t", "u", "v", "w", "x", "y", "z">>
Digits == <<"0", "1", "2", "3", "4", "5", "6", "7", "8", "9">>

UpperSet == Range(UpperCase)
LowerSet == Range(LowerCase)
DigitSet == Range(Digits)

IndexIn(t, c) == CHOOSE i \in DOMAIN t : t[i] = c

\* the ASCII code of a character
Ord(c) ==
    IF c \in UpperSet THEN 64 + IndexIn(UpperCase, c)
    ELSE IF c \in LowerSet THEN 96 + IndexIn(LowerCase, c)
    ELSE IF c \in DigitSet THEN 47 + IndexIn(Digits, c)
    ELSE IF c = "," THEN 44
    ELSE IF c = "." THEN 46
    ELSE 32

\* unicode.ToLower on an ASCII character
ToLowerChar(c) == IF c \in UpperSet THEN LowerCase[IndexIn(UpperCase, c)] ELSE c

\* strings.ToLower
ToLower(str) == [i \in DOMAIN str |-> ToLowerChar(str[i])]

\* unicode.ToUpper on an ASCII character
ToUpperChar(c) == IF c \in LowerSet THEN UpperCase[IndexIn(LowerCase, c)] ELSE c

\* strings.ToUpper
ToUpper(str) == [i \in DOMAIN str |-> ToUpperChar(str[i])]

\* strings.Join
RECURSIVE Join(_, _)
Join(parts, sep) ==
    IF parts = <<>> THEN <<>>
    ELSE IF Len(parts) = 1 THEN parts[1]
    ELSE parts[1] \o sep \o Join(Tail(parts), sep)

\* strings.Contains
Contains(str, substr) ==
    \E i \in 0..(Len(str) - Len(substr)) : SubSeq(str, i + 1, i + Len(substr)) = substr

\* strings.TrimSpace: leading and trailing white space removed
RECURSIVE TrimLeft(_)
TrimLeft(str) ==
    IF str # <<>> /\ Head(str) = " " THEN TrimLeft(Tail(str)) ELSE str

RECURSIVE TrimRight(_)
TrimRight(str) ==
    IF str # <<>> /\ str[Len(str)] = " "
    THEN TrimRight(SubSeq(str, 1, Len(str) - 1))
    ELSE str

TrimSpace(str) == TrimRight(TrimLeft(str))

\* the order of Go's < on strings: byte-wise lexicographic
RECURSIVE StrLess(_, _)
StrLess(a, b) ==
    IF b = <<>> THEN FALSE
    ELSE IF a = <<>> THEN TRUE
    ELSE IF Ord(Head(a)) # Ord(Head(b)) THEN Ord(Head(a)) < Ord(Head(b))
    ELSE StrLess(Tail(a), Tail(b))

SP == <<" ">>

----------------------------------------------------------------------------
(* vcard.Contact and time.Time *)

\* the zero time.Time: January 1, year 1
ZeroTime == [year |-> 1, month |-> 1, day |-> 1, sec |-> 0, nsec |-> 0]

\* time.Time.IsZero
IsZero(t) == t.year = 1 /\ t.month = 1 /\ t.day = 1 /\ t.sec = 0 /\ t.nsec = 0

\* the zero value of vcard.Contact
EmptyContact ==
    [Name |-> <<>>, FamilyName |-> <<>>, GivenName |-> <<>>, MiddleName |-> <<>>,
     Prefix |-> <<>>, Suffix |-> <<>>, Emails |-> <<>>, Phones |-> <<>>,
     Organization |-> <<>>, Note |-> <<>>, Address |-> <<>>,
     Birthday |-> ZeroTime, FileName |-> <<>>]

----------------------------------------------------------------------------
(* internal/app: matchesFilter, buildContactSearchText *)

\* what the loops over contact.Emails and contact.Phones write to the builder
RECURSIVE WriteEntries(_)
WriteEntries(entries) ==
    IF entries = <<>> THEN <<>>
    ELSE LET e == Head(entries)
         IN  ToLower(e.Value) \o SP
               \o (IF e.Type # <<>> THEN ToLower(e.Type) \o SP ELSE <<>>)
               \o WriteEntries(Tail(entries))

\* what an optional field writes to the builder
WriteField(str) == IF str # <<>> THEN ToLower(str) \o SP ELSE <<>>

\* a slip: the family name is searched too
buildContactSearchText_WithFamilyName(c) ==
    TrimSpace(WriteField(c.Name)
                \o WriteField(c.FamilyName)
                \o WriteEntries(c.Emails)
                \o WriteEntries(c.Phones)
                \o WriteField(c.Organization)
                \o WriteField(c.Note)
                \o WriteField(c.Address))

buildContactSearchText(c) ==
    TrimSpace(WriteField(c.Name)
                \o WriteEntries(c.Emails)
                \o WriteEntries(c.Phones)
                \o WriteField(c.Organization)
                \o WriteField(c.Note)
                \o WriteField(c.Address))

\* a slip: every term is looked up on its own
matchesFilter_EachTerm(c, terms) ==
    \A i \in DOMAIN terms : Contains(buildContactSearchText(c), ToLower(terms[i]))

matchesFilter(c, terms) ==
    IF Len(terms) = 0
    THEN TRUE
    ELSE Contains(buildContactSearchText(c), ToLower(Join(terms, SP)))

\* a call of matchesFilter
MatchesFilter ==
    /\ mode = "filter"
    /\ pc = "call"
    /\ ret' = [op |-> "matchesFilter", val |-> matchesFilter(contact, filter)]
    /\ pc' = "done"
    /\ UNCHANGED <<mode, contact, filter, list, reverse, arg, disk>>
    /\ UNCHANGED loadVars

----------------------------------------------------------------------------
(* internal/app: extractSortKey, formatNameForDisplay *)

\* a slip: the organization is looked at before the family name
extractSortKey_OrgFirst(c) ==
    IF c.Organization # <<>> /\ c.Name # <<>> THEN ToLower(c.Organization)
    ELSE IF c.FamilyName # <<>> THEN ToLower(c.FamilyName)
    ELSE IF c.Name # <<>> THEN ToLower(c.Name)
    ELSE <<>>

\* a slip: the given name is the last fallback of the key
extractSortKey_GivenName(c) ==
    IF c.FamilyName # <<>> THEN ToLower(c.FamilyName)
    ELSE IF c.Organization # <<>> /\ c.Name # <<>> THEN ToLower(c.Organization)
    ELSE IF c.Name # <<>> THEN ToLower(c.Name)
    ELSE IF c.GivenName # <<>> THEN ToLower(c.GivenName)
    ELSE <<>>

extractSortKey(c) ==
    IF c.FamilyName # <<>> THEN ToLower(c.FamilyName)
    ELSE IF c.Organization # <<>> /\ c.Name # <<>> THEN ToLower(c.Organization)
    ELSE IF c.Name # <<>> THEN ToLower(c.Name)
    ELSE <<>>

\* a slip: the prefix is appended after the given and middle names
formatNameForDisplay_PrefixLate(c) ==
    LET parts == IF c.FamilyName # <<>> THEN <<c.FamilyName>> ELSE <<>>
        givenParts ==
            (IF c.GivenName # <<>> THEN <<c.GivenName>> ELSE <<>>)
              \o (IF c.MiddleName # <<>> THEN <<c.MiddleName>> ELSE <<>>)
              \o (IF c.Prefix # <<>> THEN <<c.Prefix>> ELSE <<>>)
              \o (IF c.Suffix # <<>> THEN <<c.Suffix>> ELSE <<>>)
        fallback == IF c.Name # <<>> THEN c.Name ELSE <<>>
    IN  IF c.FamilyName # <<>> \/ c.GivenName # <<>>
        THEN IF Len(givenParts) > 0
             THEN IF Len(parts) > 0
                  THEN Join(parts, <<>>) \o <<",", " ">> \o Join(givenParts, SP)
                  ELSE Join(givenParts, SP)
             ELSE IF Len(parts) > 0 THEN Join(parts, <<>>) ELSE fallback
        ELSE fallback

formatNameForDisplay(c) ==
    LET parts == IF c.FamilyName # <<>> THEN <<c.FamilyName>> ELSE <<>>
        givenParts ==
            (IF c.Prefix # <<>> THEN <<c.Prefix>> ELSE <<>>)
              \o (IF c.GivenName # <<>> THEN <<c.GivenName>> ELSE <<>>)
              \o (IF c.MiddleName # <<>> THEN <<c.MiddleName>> ELSE <<>>)
              \o (IF c.Suffix # <<>> THEN <<c.Suffix>> ELSE <<>>)
        fallback == IF c.Name # <<>> THEN c.Name ELSE <<>>
    IN  IF c.FamilyName # <<>> \/ c.GivenName # <<>>
        THEN IF Len(givenParts) > 0
             THEN IF Len(parts) > 0
                  THEN Join(parts, <<>>) \o <<",", " ">> \o Join(givenParts, SP)
                  ELSE Join(givenParts, SP)
             ELSE IF Len(parts) > 0 THEN Join(parts, <<>>) ELSE fallback
        ELSE fallback

\* a call of extractSortKey
ExtractSortKey ==
    /\ mode = "name"
    /\ pc = "call"
    /\ ret' = [op |-> "extractSortKey", val |-> extractSortKey(contact)]
    /\ pc' = "done"
    /\ UNCHANGED <<mode, contact, filter, list, reverse, arg, disk>>
    /\ UNCHANGED loadVars

\* a call of formatNameForDisplay
FormatNameForDisplay ==
    /\ mode = "name"
    /\ pc = "call"
    /\ ret' = [op |-> "formatNameForDisplay", val |-> formatNameForDisplay(contact)]
    /\ pc' = "done"
    /\ UNCHANGED <<mode, contact, filter, list, reverse, arg, disk>>
    /\ UNCHANGED loadVars

\* loadAndFilterContacts: matchesFilter on two contacts with the same terms,
\* and the name the list shows for the first
MatchesFilterBoth ==
    /\ mode = "match"
    /\ pc = "call"
    /\ ret' = [op |-> "matchesFilter",
               val |-> matchesFilter(contact, filter),
               other |-> matchesFilter(arg.other, filter),
               display |-> formatNameForDisplay(contact)]
    /\ pc' = "done"
    /\ UNCHANGED <<mode, contact, filter, list, reverse, arg, disk>>
    /\ UNCHANGED loadVars

----------------------------------------------------------------------------
(* internal/app: sortContacts, sortContactsByBirthday *)

\* sort.Slice, given the less function as the set of the pairs <<a, b>> of
\* elements with less(a, b): the slice is left in an order with no element
\* less than an earlier one.  The sort is not guaranteed to be stable (it is
\* an insertion sort up to 12 elements and a pattern-defeating quicksort
\* beyond): which of these orders results is the library's choice.
SortSlice(s, less) ==
    {p \in {[i \in DOMAIN s |-> s[f[i]]] : f \in Orderings(DOMAIN s)} :
        \A i, j \in DOMAIN p : i < j => <<p[j], p[i]>> \notin less}

\* a slip: the reverse flag is not looked at
sortLess_IgnoreReverse(rev, ci, cj) ==
    StrLess(extractSortKey(ci), extractSortKey(cj))

\* the less function of sortContacts
sortLess(rev, ci, cj) ==
    LET keyI == extractSortKey(ci)
        keyJ == extractSortKey(cj)
    IN  IF rev THEN StrLess(keyJ, keyI) ELSE StrLess(keyI, keyJ)

\* a slip: the year is compared before the month and the day
birthdayLess_YearFirst(rev, ci, cj) ==
    LET timeI == ci.Birthday
        timeJ == cj.Birthday
    IN  IF IsZero(timeI) /\ IsZero(timeJ) THEN FALSE
        ELSE IF IsZero(timeI) THEN FALSE
        ELSE IF IsZero(timeJ) THEN TRUE
        ELSE IF timeI.year # timeJ.year
             THEN IF rev THEN timeI.year > timeJ.year ELSE timeI.year < timeJ.year
        ELSE IF timeI.month # timeJ.month
             THEN IF rev THEN timeI.month > timeJ.month ELSE timeI.month < timeJ.month
             ELSE IF rev THEN timeI.day > timeJ.day ELSE timeI.day < timeJ.day

\* a slip: the zero time is compared as the date it is, January 1
birthdayLess_NoZeroCheck(rev, ci, cj) ==
    LET timeI == ci.Birthday
        timeJ == cj.Birthday
    IN  IF timeI.month # timeJ.month
        THEN IF rev THEN timeI.month > timeJ.month ELSE timeI.month < timeJ.month
        ELSE IF rev THEN timeI.day > timeJ.day ELSE timeI.day < timeJ.day

\* the less function of sortContactsByBirthday
birthdayLess(rev, ci, cj) ==
    LET timeI == ci.Birthday
        timeJ == cj.Birthday
    IN  IF IsZero(timeI) /\ IsZero(timeJ) THEN FALSE
        ELSE IF IsZero(timeI) THEN FALSE
        ELSE IF IsZero(timeJ) THEN TRUE
        ELSE IF timeI.month # timeJ.month
             THEN IF rev THEN timeI.month > timeJ.month ELSE timeI.month < timeJ.month
             ELSE IF rev THEN timeI.day > timeJ.day ELSE timeI.day < timeJ.day

\* a call of sortContacts
SortContacts ==
    /\ mode = "sort"
    /\ pc = "call"
    /\ \E p \in SortSlice(list, {ab \in Range(list) \X Range(list) :
                                   sortLess(reverse, ab[1], ab[2])}) :
          ret' = [op |-> "sortContacts", val |-> p]
    /\ pc' = "done"
    /\ UNCHANGED <<mode, contact, filter, list, reverse, arg, disk>>
    /\ UNCHANGED loadVars

\* a call of sortContactsByBirthday
SortContactsByBirthday ==
    /\ mode = "sort"
    /\ pc = "call"
    /\ \E p \in SortSlice(list, {ab \in Range(list) \X Range(list) :
                                   birthdayLess(reverse, ab[1], ab[2])}) :
          ret' = [op |-> "sortContactsByBirthday", val |-> p]
    /\ pc' = "done"
    /\ UNCHANGED <<mode, contact, filter, list, reverse, arg, disk>>
    /\ UNCHANGED loadVars

----------------------------------------------------------------------------
(* Birthdays: time.Parse, parseBirthday, FormatBirthdayForDisplay *)

\* the layouts parseBirthday tries, as time.Parse cuts them: a piece is a
\* field of the reference time ("2006", "01", "02", "15", "04", "05") or one
\* character of literal text
LayoutDate == <<"2006", "-", "01", "-", "02">>
LayoutCompact == <<"2006", "01", "02">>
LayoutMonthDay == <<"-", "-", "01", "-", "02">>
LayoutMonthDayCompact == <<"-", "-", "01", "02">>
LayoutDateTimeZ == <<"2006", "-", "01", "-", "02", "T", "15", ":", "04", ":", "05", "Z">>
LayoutDateTime == <<"2006", "-", "01", "-", "02", "T", "15", ":", "04", ":", "05">>

formats == <<LayoutDate, LayoutCompact, LayoutMonthDay, LayoutMonthDayCompact,
             LayoutDateTimeZ, LayoutDateTime>>

\* time.isDigit: s[i] is a decimal digit (i counts from 0)
isDigit(s, i) == i < Len(s) /\ s[i + 1] \in DigitSet

DigitVal(c) == IndexIn(Digits, c) - 1

\* the number a string of digits denotes
RECURSIVE atoi(_)
atoi(s) == IF s = <<>> THEN 0 ELSE atoi(SubSeq(s, 1, Len(s) - 1)) * 10 + DigitVal(s[Len(s)])

\* the length of the digits a string starts with
RECURSIVE DigitRun(_)
DigitRun(s) == IF isDigit(s, 0) THEN 1 + DigitRun(Tail(s)) ELSE 0

RECURSIVE Pow10(_)
Pow10(n) == IF n = 0 THEN 1 ELSE 10 * Pow10(n - 1)

\* time.getnum: one or two digits, exactly two when fixed
getnum(s, fixed) ==
    IF ~isDigit(s, 0) THEN [ok |-> FALSE, n |-> 0, rest |-> s]
    ELSE IF ~isDigit(s, 1)
         THEN IF fixed THEN [ok |-> FALSE, n |-> 0, rest |-> s]
              ELSE [ok |-> TRUE, n |-> DigitVal(s[1]), rest |-> Tail(s)]
    ELSE [ok |-> TRUE, n |-> DigitVal(s[1]) * 10 + DigitVal(s[2]),
          rest |-> SubSeq(s, 3, Len(s))]

\* time.isLeap and time.daysIn
isLeap(year) == year % 4 = 0 /\ (year % 100 # 0 \/ year % 400 = 0)

daysIn(m, year) ==
    IF m = 2 THEN (IF isLeap(year) THEN 29 ELSE 28)
    ELSE IF m \in {4, 6, 9, 11} THEN 30
    ELSE 31

\* time.Date in UTC for a month of 1..12, a day of 1..31 and a time of day
\* in range: a day past the end of the month is carried into the next month
Date(year, month, day, sec, nsec) ==
    IF day <= daysIn(month, year)
    THEN [year |-> year, month |-> month, day |-> day, sec |-> sec, nsec |-> nsec]
    ELSE IF month = 12
         THEN [year |-> year + 1, month |-> 1, day |-> day - daysIn(month, year),
               sec |-> sec, nsec |-> nsec]
         ELSE [year |-> year, month |-> month + 1, day |-> day - daysIn(month, year),
               sec |-> sec, nsec |-> nsec]

\* what time.Parse holds before the first piece of the layout is read
ParseStart(value) ==
    [value |-> value, ok |-> TRUE, year |-> 0, month |-> -1, day |-> -1,
     hour |-> 0, min |-> 0, sec |-> 0, nsec |-> 0]

\* the seconds field of time.Parse: two digits, then a fraction of a second
\* is read although the layout has none
parseSeconds(st) ==
    LET g == getnum(st.value, TRUE)
        v == g.rest
        frac == Len(v) >= 2 /\ v[1] \in {".", ","} /\ isDigit(v, 1)
        n == 1 + DigitRun(Tail(v))
        kept == IF n > 10 THEN 10 ELSE n
    IN  IF ~g.ok \/ g.n >= 60 THEN [st EXCEPT !.ok = FALSE]
        ELSE IF ~frac THEN [st EXCEPT !.value = v, !.sec = g.n]
        ELSE [st EXCEPT !.value = SubSeq(v, n + 1, Len(v)), !.sec = g.n,
                        !.nsec = atoi(SubSeq(v, 2, kept)) * Pow10(10 - kept)]

\* time.Parse: one piece of the layout read off the front of the value
parsePiece(std, st) ==
    IF std = "2006"
    THEN IF Len(st.value) < 4 \/ \E i \in 0..3 : ~isDigit(st.value, i)
         THEN [st EXCEPT !.ok = FALSE]
         ELSE [st EXCEPT !.year = atoi(SubSeq(st.value, 1, 4)),
                         !.value = SubSeq(st.value, 5, Len(st.value))]
    ELSE IF std = "01"
    THEN LET g == getnum(st.value, TRUE)
         IN  IF ~g.ok \/ g.n <= 0 \/ 12 < g.n THEN [st EXCEPT !.ok = FALSE]
             ELSE [st EXCEPT !.month = g.n, !.value = g.rest]
    ELSE IF std = "02"
    THEN LET g == getnum(st.value, TRUE)
         IN  IF ~g.ok THEN [st EXCEPT !.ok = FALSE]
             ELSE [st EXCEPT !.day = g.n, !.value = g.rest]
    ELSE IF std = "15"
    THEN LET g == getnum(st.value, FALSE)
         IN  IF ~g.ok \/ 24 <= g.n THEN [st EXCEPT !.ok = FALSE]
             ELSE [st EXCEPT !.hour = g.n, !.value = g.rest]
    ELSE IF std = "04"
    THEN LET g == getnum(st.value, TRUE)
         IN  IF ~g.ok \/ 60 <= g.n THEN [st EXCEPT !.ok = FALSE]
             ELSE [st EXCEPT !.min = g.n, !.value = g.rest]
    ELSE IF std = "05"
    THEN parseSeconds(st)
    ELSE IF st.value = <<>> \/ Head(st.value) # std
         THEN [st EXCEPT !.ok = FALSE]
         ELSE [st EXCEPT !.value = Tail(st.value)]

RECURSIVE parseLayout(_, _)
parseLayout(layout, st) ==
    IF ~st.ok \/ layout = <<>> THEN st
    ELSE parseLayout(Tail(layout), parsePiece(Head(layout), st))

\* time.Parse(layout, value): [err, time]; text left over and a day the
\* month does not have are errors
Parse(layout, value) ==
    LET st == parseLayout(layout, ParseStart(value))
    IN  IF ~st.ok \/ st.value # <<>> \/ st.day < 1 \/ st.day > daysIn(st.month, st.year)
        THEN [err |-> TRUE, time |-> ZeroTime]
        ELSE [err |-> FALSE,
              time |-> Date(st.year, st.month, st.day,
                            (st.hour * 60 + st.min) * 60 + st.sec, st.nsec)]

\* strings.HasPrefix
HasPrefix(str, prefix) ==
    Len(str) >= Len(prefix) /\ SubSeq(str, 1, Len(prefix)) = prefix

\* parseBirthday: the loop over formats, from format i on
RECURSIVE tryFormats(_, _, _)
tryFormats(i, birthday, currentYear) ==
    IF i > Len(formats)
    THEN IF Len(birthday) >= 10 /\ ~Parse(LayoutDate, SubSeq(birthday, 1, 10)).err
         THEN Parse(LayoutDate, SubSeq(birthday, 1, 10)).time
         ELSE ZeroTime
    ELSE LET p == Parse(formats[i], birthday)
         IN  IF ~p.err
             THEN IF HasPrefix(birthday, <<"-", "-">>)
                  THEN Date(currentYear, p.time.month, p.time.day, 0, 0)
                  ELSE p.time
             ELSE tryFormats(i + 1, birthday, currentYear)

\* a slip: the month and day of a year-unknown birthday keep the year 0 of
\* time.Parse
parseBirthday_NoAnchor(raw, currentYear) ==
    LET birthday == TrimSpace(raw)
    IN  IF birthday = <<>> THEN ZeroTime
        ELSE tryFormats(1, birthday, 0)

\* parseBirthday; currentYear is what time.Now().Year() returns
parseBirthday(raw, currentYear) ==
    LET birthday == TrimSpace(raw)
    IN  IF birthday = <<>> THEN ZeroTime
        ELSE tryFormats(1, birthday, currentYear)

\* strconv.Itoa of a natural number
RECURSIVE Itoa(_)
Itoa(n) == IF n < 10 THEN <<Digits[n + 1]>> ELSE Itoa(n \div 10) \o <<Digits[(n % 10) + 1]>>

\* fmt's %0wd of a natural number: zeros in front up to the width w
RECURSIVE FormatInt(_, _)
FormatInt(n, w) ==
    IF Len(Itoa(n)) >= w THEN Itoa(n) ELSE <<"0">> \o FormatInt(n, w - 1)

\* FormatBirthdayForDisplay; currentYear is what time.Now().Year() returns
FormatBirthdayForDisplay(birthday, currentYear) ==
    IF IsZero(birthday) THEN <<>>
    ELSE IF birthday.year = currentYear
         THEN FormatInt(birthday.month, 2) \o <<"/">> \o FormatInt(birthday.day, 2)
         ELSE FormatInt(birthday.month, 2) \o <<"/">> \o FormatInt(birthday.day, 2)
                  \o <<"/">> \o FormatInt(birthday.year, 4)

\* processVCardFile: the BDAY field of a card is parsed into the contact
ParseBirthday ==
    /\ mode = "birthday"
    /\ pc = "call"
    /\ contact' = [EmptyContact EXCEPT
                     !.Birthday = parseBirthday(arg.birthday, arg.currentYear)]
    /\ pc' = "parsed"
    /\ UNCHANGED <<mode, filter, list, reverse, ret, arg, disk>>
    /\ UNCHANGED loadVars

\* PrintBirthdays: the birthday of the contact is formatted
PrintBirthday ==
    /\ mode = "birthday"
    /\ pc = "parsed"
    /\ ret' = [op |-> "FormatBirthdayForDisplay",
               val |-> FormatBirthdayForDisplay(contact.Birthday, arg.currentYear)]
    /\ pc' = "done"
    /\ UNCHANGED <<mode, contact, filter, list, reverse, arg, disk>>
    /\ UNCHANGED loadVars

----------------------------------------------------------------------------
(* Field types: getFieldType *)

ParamType == <<"T", "Y", "P", "E">>

\* the legacy vCard 2.1 parameters getFieldType knows
LegacyTypes ==
    {<<"H", "O", "M", "E">>, <<"W", "O", "R", "K">>, <<"C", "E", "L", "L">>,
     <<"F", "A", "X">>, <<"P", "A", "G", "E", "R">>, <<"V", "O", "I", "C", "E">>,
     <<"M", "S", "G">>}

\* getFieldType: the range loop over the parameter names, in the order the
\* map yields them
RECURSIVE legacyType(_)
legacyType(names) ==
    IF names = <<>> THEN <<>>
    ELSE IF ToUpper(Head(names)) \in LegacyTypes THEN ToUpper(Head(names))
    ELSE legacyType(Tail(names))

\* a slip: a legacy parameter is preferred to the TYPE parameter
getFieldType_LegacyFirst(params, names) ==
    IF legacyType(names) # <<>> THEN legacyType(names)
    ELSE IF ParamType \in DOMAIN params /\ Len(params[ParamType]) > 0
         THEN ToUpper(params[ParamType][1])
         ELSE <<>>

\* getFieldType(params); names is the order in which the map is ranged over
getFieldType(params, names) ==
    IF ParamType \in DOMAIN params /\ Len(params[ParamType]) > 0
    THEN ToUpper(params[ParamType][1])
    ELSE legacyType(names)

\* processVCardFile: the type of an EMAIL or TEL field is resolved
GetFieldType ==
    /\ mode = "type"
    /\ pc = "call"
    /\ \E names \in Orderings(DOMAIN arg.params) :
          ret' = [op |-> "getFieldType", val |-> getFieldType(arg.params, names)]
    /\ pc' = "done"
    /\ UNCHANGED <<mode, contact, filter, list, reverse, arg, disk>>
    /\ UNCHANGED loadVars

\* the same parameters are resolved a second time
GetFieldTypeAgain ==
    /\ mode = "type"
    /\ pc = "done"
    /\ \E names \in Orderings(DOMAIN arg.params) :
          ret' = [op |-> "getFieldType", val |-> getFieldType(arg.params, names),
                  first |-> ret.val]
    /\ pc' = "again"
    /\ UNCHANGED <<mode, contact, filter, list, reverse, arg, disk>>
    /\ UNCHANGED loadVars

----------------------------------------------------------------------------
(* Addresses: formatAddress *)

\* strings.Split on a one-character separator
RECURSIVE Split(_, _)
Split(str, sep) ==
    IF \E i \in DOMAIN str : str[i] = sep
    THEN LET i == CHOOSE k \in DOMAIN str : str[k] = sep /\ \A j \in 1..(k - 1) : str[j] # sep
         IN  <<SubSeq(str, 1, i - 1)>> \o Split(SubSeq(str, i + 1, Len(str)), sep)
    ELSE <<str>>

\* formatAddress: parts[i] appended when it is there and not empty
addressPart(parts, i) ==
    IF Len(parts) > i /\ parts[i + 1] # <<>> THEN <<parts[i + 1]>> ELSE <<>>

\* a slip: the components are counted from the extended address
formatAddress_FromExtended(address) ==
    LET parts == Split(address, ";")
        addressParts == addressPart(parts, 1) \o addressPart(parts, 2) \o addressPart(parts, 3)
                            \o addressPart(parts, 4) \o addressPart(parts, 5)
    IN  Join(addressParts, <<",", " ">>)

\* formatAddress
formatAddress(address) ==
    LET parts == Split(address, ";")
        addressParts == addressPart(parts, 2) \o addressPart(parts, 3) \o addressPart(parts, 4)
                            \o addressPart(parts, 5) \o addressPart(parts, 6)
    IN  Join(addressParts, <<",", " ">>)

\* processVCardFile: the ADR field of a card is formatted
FormatAddress ==
    /\ mode = "address"
    /\ pc = "call"
    /\ ret' = [op |-> "formatAddress", val |-> formatAddress(arg.address)]
    /\ pc' = "done"
    /\ UNCHANGED <<mode, contact, filter, list, reverse, arg, disk>>
    /\ UNCHANGED loadVars

----------------------------------------------------------------------------
(* Export: loadAndFilterContacts, exportCSV, exportJSON, ExportContacts *)

\* loadAndFilterContacts; loaded is what vcard.LoadContacts returned for the
\* configured paths.  isNil tells the nil slice from an empty one: both
\* LoadContacts and the filter loop declare the slice with var and only
\* append to it, so a slice without elements is nil.
loadAndFilterContacts(loaded, terms) ==
    IF loaded.err
    THEN [contacts |-> <<>>, isNil |-> TRUE, err |-> TRUE]
    ELSE IF Len(terms) = 0
         THEN [contacts |-> loaded.contacts, isNil |-> loaded.contacts = <<>>, err |-> FALSE]
         ELSE LET filteredContacts == SelectSeq(loaded.contacts, LAMBDA c : matchesFilter(c, terms))
              IN  [contacts |-> filteredContacts, isNil |-> filteredContacts = <<>>,
                   err |-> FALSE]

\* formatEmailsForExport and formatPhonesForExport: the loop over the entries
RECURSIVE exportParts(_)
exportParts(entries) ==
    IF entries = <<>> THEN <<>>
    ELSE <<IF Head(entries).Type # <<>>
           THEN Head(entries).Value \o <<" ", "(">> \o ToLower(Head(entries).Type) \o <<")">>
           ELSE Head(entries).Value>>
         \o exportParts(Tail(entries))

\* a slip: the type is written in the letter case it is stored in
formatEmailsForExport_KeepCase(emails) ==
    IF Len(emails) = 0 THEN <<>>
    ELSE Join([i \in DOMAIN emails |->
                 IF emails[i].Type # <<>>
                 THEN emails[i].Value \o <<" ", "(">> \o emails[i].Type \o <<")">>
                 ELSE emails[i].Value], <<";", " ">>)

\* formatEmailsForExport
formatEmailsForExport(emails) ==
    IF Len(emails) = 0 THEN <<>> ELSE Join(exportParts(emails), <<";", " ">>)

\* formatPhonesForExport
formatPhonesForExport(phones) ==
    IF Len(phones) = 0 THEN <<>> ELSE Join(exportParts(phones), <<";", " ">>)

\* the header row of exportCSV
header ==
    << <<"N", "a", "m", "e">>, <<"E", "m", "a", "i", "l", "s">>,
       <<"P", "h", "o", "n", "e", "s">>,
       <<"O", "r", "g", "a", "n", "i", "z", "a", "t", "i", "o", "n">>,
       <<"N", "o", "t", "e">>, <<"A", "d", "d", "r", "e", "s", "s">> >>

\* exportCSV: the record of one contact
record(c) ==
    <<c.Name, formatEmailsForExport(c.Emails), formatPhonesForExport(c.Phones),
      c.Organization, c.Note, c.Address>>

\* nothing written
NoDoc == [format |-> "none"]

\* the code points of the characters a delimiter is written with; a
\* character outside ASCII is written as the name of its code point
CodePoint ==
    [c \in {",", ";", "|", "\"", "U+00A7", "U+20AC"} |->
        IF c = "," THEN 44
        ELSE IF c = ";" THEN 59
        ELSE IF c = "|" THEN 124
        ELSE IF c = "\"" THEN 34
        ELSE IF c = "U+00A7" THEN 167
        ELSE 8364]

\* the UTF-8 bytes of a code point below 65536
EncodeRune(cp) ==
    IF cp < 128 THEN <<cp>>
    ELSE IF cp < 2048 THEN <<192 + (cp \div 64), 128 + (cp % 64)>>
    ELSE <<224 + (cp \div 4096), 128 + ((cp \div 64) % 64), 128 + (cp % 64)>>

\* the bytes of a Go string: what len and indexing see
Bytes(str) == Concat([i \in DOMAIN str |-> EncodeRune(CodePoint[str[i]])])

\* csv.Writer: a field separator that is a quote, a carriage return or a line
\* feed makes every Write fail; r is a code point
validDelim(r) == r \notin {34, 13, 10}

\* exportCSV: [err, doc]; the document is the separator (a code point: the
\* first byte of the delimiter converted to a rune, the comma of
\* csv.NewWriter without one) and the records written, each record the
\* sequence of its fields
exportCSV(cs, delimiter) ==
    LET Comma == IF Len(Bytes(delimiter)) > 0 THEN Bytes(delimiter)[1] ELSE 44
    IN  IF ~validDelim(Comma)
        THEN [err |-> TRUE, doc |-> NoDoc]
        ELSE [err |-> FALSE,
              doc |-> [format |-> "csv", Comma |-> Comma,
                       records |-> <<header>> \o [i \in DOMAIN cs |-> record(cs[i])]]]

\* JSON values
JSONNull == [kind |-> "null"]
JSONString(str) == [kind |-> "string", val |-> str]
JSONArray(elems) == [kind |-> "array", elems |-> elems]
JSONObject(fields) == [kind |-> "object", fields |-> fields]

\* the digits of a fraction of a second without the zeros at its end
RECURSIVE trimZeros(_)
trimZeros(str) ==
    IF str # <<>> /\ str[Len(str)] = "0" THEN trimZeros(SubSeq(str, 1, Len(str) - 1)) ELSE str

\* time.Time.MarshalJSON of a UTC time: RFC 3339 with the fraction of a
\* second when there is one
MarshalTime(t) ==
    FormatInt(t.year, 4) \o <<"-">> \o FormatInt(t.month, 2) \o <<"-">> \o FormatInt(t.day, 2)
        \o <<"T">> \o FormatInt(t.sec \div 3600, 2) \o <<":">>
        \o FormatInt((t.sec \div 60) % 60, 2) \o <<":">> \o FormatInt(t.sec % 60, 2)
        \o (IF t.nsec = 0 THEN <<>> ELSE <<".">> \o trimZeros(FormatInt(t.nsec, 9)))
        \o <<"Z">>

\* encoding/json of []EmailEntry and []PhoneEntry: null for the nil slice
marshalEntries(entries) ==
    IF entries = <<>> THEN JSONNull
    ELSE JSONArray([i \in DOMAIN entries |->
                      JSONObject([Value |-> JSONString(entries[i].Value),
                                  Type |-> JSONString(entries[i].Type)])])

\* encoding/json of a vcard.Contact: one member per field, named as the field
marshalContact(c) ==
    JSONObject([Name |-> JSONString(c.Name), FamilyName |-> JSONString(c.FamilyName),
                GivenName |-> JSONString(c.GivenName), MiddleName |-> JSONString(c.MiddleName),
                Prefix |-> JSONString(c.Prefix), Suffix |-> JSONString(c.Suffix),
                Emails |-> marshalEntries(c.Emails), Phones |-> marshalEntries(c.Phones),
                Organization |-> JSONString(c.Organization), Note |-> JSONString(c.Note),
                Address |-> JSONString(c.Address),
                Birthday |-> JSONString(MarshalTime(c.Birthday)),
                FileName |-> JSONString(c.FileName)])

\* exportJSON: [err, doc]; encoder.Encode writes null for the nil slice
exportJSON(cs, isNil) ==
    [err |-> FALSE,
     doc |-> [format |-> "json",
              value |-> IF isNil THEN JSONNull
                        ELSE JSONArray([i \in DOMAIN cs |-> marshalContact(cs[i])])]]

\* a path that names no file, in a directory that exists
NoFile == [kind |-> "absent", content |-> NoDoc]

\* a slip: the output file is created without a look at what is there
ExportContactsResult_NoStat(loaded, format, delimiter, out, terms, d) ==
    LET lf == loadAndFilterContacts(loaded, terms)
        created == IF out = "" THEN d ELSE [d EXCEPT ![out] = [kind |-> "file", content |-> NoDoc]]
        r == IF format = "csv" THEN exportCSV(lf.contacts, delimiter)
             ELSE exportJSON(lf.contacts, lf.isNil)
    IN  IF lf.err
        THEN [err |-> "load", contacts |-> <<>>, disk |-> d, stdout |-> NoDoc,
              io |-> <<"LoadContacts">>]
        ELSE IF format \notin {"csv", "json"}
        THEN [err |-> "unsupported format", contacts |-> lf.contacts, disk |-> created,
              stdout |-> NoDoc, io |-> <<"LoadContacts", "Create">>]
        ELSE [err |-> IF r.err THEN format ELSE "", contacts |-> lf.contacts,
              disk |-> IF out = "" THEN d ELSE [created EXCEPT ![out].content = r.doc],
              stdout |-> IF out = "" THEN r.doc ELSE NoDoc,
              io |-> <<"LoadContacts", "Create", "Write">>]

\* ExportContacts(format, delimiter, output, filter) on the files d:
\* err is "" or names the error returned, contacts is the local slice,
\* disk the files afterwards, stdout what was written to os.Stdout, io the
\* calls made that read or write outside the process, in order
ExportContactsResult(loaded, format, delimiter, out, terms, d) ==
    LET lf == loadAndFilterContacts(loaded, terms)
        stat == IF out = "" THEN <<>> ELSE <<"Stat">>
        create == IF out = "" THEN <<>> ELSE <<"Stat", "Create">>
        created == IF out = "" THEN d ELSE [d EXCEPT ![out] = [kind |-> "file", content |-> NoDoc]]
        r == IF format = "csv" THEN exportCSV(lf.contacts, delimiter)
             ELSE exportJSON(lf.contacts, lf.isNil)
    IN  IF lf.err
        THEN [err |-> "load", contacts |-> <<>>, disk |-> d, stdout |-> NoDoc,
              io |-> <<"LoadContacts">>]
        ELSE IF out # "" /\ d[out].kind = "file"
        THEN [err |-> "output file already exists", contacts |-> lf.contacts, disk |-> d,
              stdout |-> NoDoc, io |-> <<"LoadContacts">> \o stat]
        ELSE IF out # "" /\ d[out].kind = "nodir"
        THEN [err |-> "create", contacts |-> lf.contacts, disk |-> d, stdout |-> NoDoc,
              io |-> <<"LoadContacts">> \o create]
        ELSE IF format \notin {"csv", "json"}
        THEN [err |-> "unsupported format", contacts |-> lf.contacts, disk |-> created,
              stdout |-> NoDoc, io |-> <<"LoadContacts">> \o create]
        ELSE [err |-> IF r.err THEN format ELSE "", contacts |-> lf.contacts,
              disk |-> IF out = "" \/ r.err THEN created
                       ELSE [created EXCEPT ![out].content = r.doc],
              stdout |-> IF out = "" /\ ~r.err THEN r.doc ELSE NoDoc,
              io |-> <<"LoadContacts">> \o create \o (IF r.err THEN <<>> ELSE <<"Write">>)]

\* App.Run: the export command calls ExportContacts
RunExport ==
    /\ mode = "export"
    /\ pc = "call"
    /\ LET r == ExportContactsResult(arg.loaded, arg.format, arg.delimiter, arg.output,
                                     filter, disk)
       IN  /\ list' = r.contacts
           /\ disk' = r.disk
           /\ ret' = [op |-> "ExportContacts", err |-> r.err, stdout |-> r.stdout, io |-> r.io]
    /\ pc' = "done"
    /\ UNCHANGED <<mode, contact, filter, reverse, arg>>
    /\ UNCHANGED loadVars

----------------------------------------------------------------------------
(* Birthday listing: GetBirthdayContacts *)

\* a slip: the contacts without a birthday are kept
GetBirthdayContactsResults_KeepAbsent(loaded, rev, terms) ==
    LET lf == loadAndFilterContacts(loaded, terms)
    IN  IF lf.err THEN {[err |-> TRUE, contacts |-> <<>>]}
        ELSE {[err |-> FALSE, contacts |-> p] :
                p \in SortSlice(lf.contacts,
                                {ab \in Range(lf.contacts) \X Range(lf.contacts) :
                                   birthdayLess(rev, ab[1], ab[2])})}

\* GetBirthdayContacts(reverse, filter): what it may return, one outcome for
\* each order sort.Slice may leave the slice in
GetBirthdayContactsResults(loaded, rev, terms) ==
    LET lf == loadAndFilterContacts(loaded, terms)
        birthdayContacts == SelectSeq(lf.contacts, LAMBDA c : ~IsZero(c.Birthday))
    IN  IF lf.err THEN {[err |-> TRUE, contacts |-> <<>>]}
        ELSE {[err |-> FALSE, contacts |-> p] :
                p \in SortSlice(birthdayContacts,
                                {ab \in Range(birthdayContacts) \X Range(birthdayContacts) :
                                   birthdayLess(rev, ab[1], ab[2])})}

\* a call of GetBirthdayContacts
GetBirthdayContacts ==
    /\ mode = "birthdays"
    /\ pc = "call"
    /\ \E r \in GetBirthdayContactsResults(arg.loaded, reverse, filter) :
          ret' = [op |-> "GetBirthdayContacts", err |-> r.err, val |-> r.contacts]
    /\ pc' = "done"
    /\ UNCHANGED <<mode, contact, filter, list, reverse, arg, disk>>
    /\ UNCHANGED loadVars

----------------------------------------------------------------------------
(* Specifications *)

vars == <<mode, pc, fs, config, command, paths, pathIdx, contacts, loadErrors,
          pathResults, result, exitCode, output, contact, filter, list, reverse, ret,
          arg, disk>>

\* no view is computed in a run of the aggregator
NoView ==
    /\ contact = <<>>
    /\ filter = <<>>
    /\ list = <<>>
    /\ reverse = FALSE
    /\ ret = <<>>
    /\ arg = <<>>
    /\ disk = <<>>

NoConfig == [b \in {} |-> EmptyPath]

\* a direct call of vcard.LoadContacts, as the tests and the app make it
InitLoad ==
    /\ mode = "api"
    /\ pc = "load"
    /\ fs \in FileSystems
    /\ config = NoConfig
    /\ command = "none"
    /\ paths \in SeqsUpTo(PathNames, MaxPaths)
    /\ pathIdx = 1
    /\ contacts = <<>>
    /\ loadErrors = <<>>
    /\ pathResults = <<>>
    /\ result = NoResult
    /\ exitCode = -1
    /\ output = NoOutput
    /\ NoView

NextLoad == LoadPath \/ LoadContactsReturn

SpecLoad == InitLoad /\ [][NextLoad]_vars

\* a run of the program: main loads the configuration and runs the command
InitMain ==
    /\ mode = "main"
    /\ pc = "config"
    /\ fs \in FileSystems
    /\ config \in Configs
    /\ command \in {"list", "export"}
    /\ paths = <<>>
    /\ pathIdx = 1
    /\ contacts = <<>>
    /\ loadErrors = <<>>
    /\ pathResults = <<>>
    /\ result = NoResult
    /\ exitCode = -1
    /\ output = NoOutput
    /\ NoView

NextMain == ConfigLoad \/ LoadPath \/ LoadContactsReturn \/ ListContacts \/ ExportContacts

SpecMain == InitMain /\ [][NextMain]_vars

\* the contacts and filter terms the filter is run on
FilterNames == {<<>>, <<"A", "l">>, <<"A", "l", " ", "b", "O">>, <<"b", "O", " ", "A", "l">>}
FilterEmails ==
    {[Value |-> <<"b", "O">>, Type |-> <<>>],
     [Value |-> <<"b", "O">>, Type |-> <<"H", "O", "M", "E">>],
     [Value |-> <<>>, Type |-> <<"H", "O", "M", "E">>]}
FilterPhones ==
    {[Value |-> <<"1", "2">>, Type |-> <<>>],
     [Value |-> <<"1", "2">>, Type |-> <<"C", "E", "L", "L">>]}
FilterTerms == {<<>>, <<"a", "l">>, <<"A", "L">>, <<"b", "o">>, <<"h", "o", "m", "e">>}

FilterContacts ==
    {[EmptyContact EXCEPT !.Name = n, !.Emails = es, !.Phones = ps,
                          !.Organization = o, !.Note = t, !.Address = a] :
        n \in FilterNames,
        es \in SeqsUpTo(FilterEmails, MaxEntries),
        ps \in SeqsUpTo(FilterPhones, MaxEntries),
        o \in {<<>>, <<"b", "O">>},
        t \in {<<>>, <<"A", "l">>},
        a \in {<<>>, <<"b", "O">>}}

\* a call of a view: nothing is loaded
InitView ==
    /\ pc = "call"
    /\ fs = [p \in PathNames |-> NoDir]
    /\ config = NoConfig
    /\ command = "none"
    /\ paths = <<>>
    /\ pathIdx = 1
    /\ contacts = <<>>
    /\ loadErrors = <<>>
    /\ pathResults = <<>>
    /\ result = NoResult
    /\ exitCode = -1
    /\ output = NoOutput
    /\ ret = <<>>

\* a call of matchesFilter on one contact
InitFilter ==
    /\ mode = "filter"
    /\ InitView
    /\ disk = <<>>
    /\ arg = <<>>
    /\ contact \in FilterContacts
    /\ filter \in SeqsUpTo(FilterTerms, MaxTerms)
    /\ list = <<>>
    /\ reverse = FALSE

NextFilter == MatchesFilter

SpecFilter == InitFilter /\ [][NextFilter]_vars

\* the fields of a contact the search text is not built from
Doe == <<"D", "o", "e">>
John == <<"J", "o", "h", "n">>
StructuredFields ==
    [FamilyName : {<<>>, Doe}, GivenName : {<<>>, John},
     MiddleName : {<<>>, <<"d", "o", "e">>}, Prefix : {<<>>, <<"D", "r">>},
     Suffix : {<<>>, <<"d", "o", "e">>},
     Birthday : {ZeroTime, Date(1990, 3, 5, 0, 0)},
     FileName : {<<>>, <<"d", "o", "e", ".", "v", "c", "f">>}]

\* the contacts two of which are matched: the searched fields
MatchContacts ==
    {[EmptyContact EXCEPT !.Name = n, !.Emails = es, !.Organization = o] :
        n \in {<<>>, <<"A", "l">>, John \o SP \o Doe},
        es \in {<<>>, << [Value |-> <<"d", "o", "e">>, Type |-> <<>>] >>},
        o \in {<<>>, Doe}}

WithStructured(c, s) ==
    [c EXCEPT !.FamilyName = s.FamilyName, !.GivenName = s.GivenName,
              !.MiddleName = s.MiddleName, !.Prefix = s.Prefix, !.Suffix = s.Suffix,
              !.Birthday = s.Birthday, !.FileName = s.FileName]

\* matchesFilter on two contacts that differ in none of the searched fields
InitMatch ==
    /\ mode = "match"
    /\ InitView
    /\ disk = <<>>
    /\ list = <<>>
    /\ reverse = FALSE
    /\ filter \in {<<>>, << <<"d", "o", "e">> >>, << <<"J", "o", "h", "n">> >>,
                   << <<"j", "o", "h", "n">>, <<"d", "o", "e">> >>}
    /\ \E c \in MatchContacts, s \in StructuredFields :
          /\ s.FamilyName = <<>> <=> s.GivenName = <<>>
          /\ s.MiddleName = <<>> /\ s.Prefix = <<>> /\ s.Suffix = <<>>
          /\ contact = WithStructured(c, s)
          /\ arg \in {[other |-> WithStructured(c, t)] : t \in StructuredFields}

NextMatch == MatchesFilterBoth

SpecMatch == InitMatch /\ [][NextMatch]_vars

\* the contacts the name views are computed from
NameContacts ==
    {[EmptyContact EXCEPT !.FamilyName = f, !.GivenName = g, !.MiddleName = m,
                          !.Prefix = x, !.Suffix = u, !.Name = n, !.Organization = o] :
        f \in {<<>>, <<"D", "o", "e">>},
        g \in {<<>>, <<"A", "l">>},
        m \in {<<>>, <<"Q">>},
        x \in {<<>>, <<"D", "r", ".">>},
        u \in {<<>>, <<"J", "r">>},
        n \in {<<>>, <<"A", "l", " ", "D", "o", "e">>},
        o \in {<<>>, <<"A", "C", "M", "E">>}}

\* a call of extractSortKey or formatNameForDisplay on one contact
InitName ==
    /\ mode = "name"
    /\ InitView
    /\ disk = <<>>
    /\ arg = <<>>
    /\ contact \in NameContacts
    /\ filter = <<>>
    /\ list = <<>>
    /\ reverse = FALSE

NextName == ExtractSortKey \/ FormatNameForDisplay

SpecName == InitName /\ [][NextName]_vars

\* the contacts that are sorted: two keys that differ in letter case only,
\* an organization, a formatted name only, no name at all, and birthdays
\* present and absent, two of them on the same day of different years
SortPool ==
    {[EmptyContact EXCEPT !.FamilyName = <<"D", "o", "e">>, !.GivenName = <<"A", "l">>,
                          !.Birthday = [ZeroTime EXCEPT !.year = 1990, !.month = 3, !.day = 5]],
     [EmptyContact EXCEPT !.FamilyName = <<"d", "o", "e">>, !.GivenName = <<"B", "o">>],
     [EmptyContact EXCEPT !.FamilyName = <<"D", "O", "E">>,
                          !.Birthday = [ZeroTime EXCEPT !.year = 1991, !.month = 3, !.day = 5]],
     [EmptyContact EXCEPT !.Name = <<"A", "c", "m", "e">>, !.Organization = <<"B", "e", "t", "a">>,
                          !.Birthday = [ZeroTime EXCEPT !.year = 2000, !.month = 3, !.day = 1]],
     [EmptyContact EXCEPT !.Name = <<"A", "l">>,
                          !.Birthday = [ZeroTime EXCEPT !.year = 1985, !.month = 1, !.day = 20]],
     EmptyContact}

\* a call of sortContacts or sortContactsByBirthday on one slice
InitSort ==
    /\ mode = "sort"
    /\ InitView
    /\ disk = <<>>
    /\ arg = <<>>
    /\ contact = <<>>
    /\ filter = <<>>
    /\ list \in SeqsUpTo(SortPool, MaxContacts)
    /\ reverse \in BOOLEAN

NextSort == SortContacts \/ SortContactsByBirthday

SpecSort == InitSort /\ [][NextSort]_vars

\* contacts with and without a sort key: a given name only, an organization
\* only, a family name, a formatted name with and without an organization,
\* and nothing at all
KeyPool ==
    {[EmptyContact EXCEPT !.GivenName = <<"A", "l">>],
     [EmptyContact EXCEPT !.Organization = <<"B", "e", "t", "a">>],
     [EmptyContact EXCEPT !.FamilyName = <<"D", "o", "e">>, !.GivenName = <<"B", "o">>],
     [EmptyContact EXCEPT !.Name = <<"A", "l">>],
     [EmptyContact EXCEPT !.Name = <<"A", "c", "m", "e">>, !.Organization = <<"B", "e", "t", "a">>],
     EmptyContact}

\* a call of sortContacts on a slice of such contacts
InitSortKey ==
    /\ mode = "sort"
    /\ InitView
    /\ disk = <<>>
    /\ arg = <<>>
    /\ contact = <<>>
    /\ filter = <<>>
    /\ list \in SeqsUpTo(KeyPool, MaxContacts)
    /\ reverse \in BOOLEAN

NextSortKey == SortContacts

SpecSortKey == InitSortKey /\ [][NextSortKey]_vars

\* the vocabulary of the BDAY values: years, months, days and times of day
BirthdayYears == {0, 1, 1990, 2024, 2025}
BirthdayMonths == {0, 1, 2, 12, 13}
BirthdayDays == {0, 1, 29, 30, 31, 32}
BirthdayClocks ==
    {<<"0", "0", ":", "0", "0", ":", "0", "0">>,
     <<"1", "0", ":", "3", "0", ":", "0", "0">>,
     <<"7", ":", "0", "5", ":", "0", "9">>,
     <<"2", "4", ":", "0", "0", ":", "0", "0">>,
     <<"1", "0", ":", "3", "0", ":", "0", "0", ".", "5">>}
\* the years time.Now().Year() returns: a leap year and the year after it
CurrentYears == {2024, 2025}

\* YYYY-MM-DD, YYYYMMDD, --MM-DD and --MMDD written with zeros in front
IsoDate(y, m, d) == FormatInt(y, 4) \o <<"-">> \o FormatInt(m, 2) \o <<"-">> \o FormatInt(d, 2)
CompactDate(y, m, d) == FormatInt(y, 4) \o FormatInt(m, 2) \o FormatInt(d, 2)
MonthDayDashed(m, d) == <<"-", "-">> \o FormatInt(m, 2) \o <<"-">> \o FormatInt(d, 2)
MonthDayCompact(m, d) == <<"-", "-">> \o FormatInt(m, 2) \o FormatInt(d, 2)

\* the BDAY values a card is read with
BirthdayStrings ==
    {IsoDate(y, m, d) : y \in BirthdayYears, m \in BirthdayMonths, d \in BirthdayDays}
    \cup {CompactDate(y, m, d) : y \in BirthdayYears, m \in BirthdayMonths, d \in BirthdayDays}
    \cup {MonthDayDashed(m, d) : m \in BirthdayMonths, d \in BirthdayDays}
    \cup {MonthDayCompact(m, d) : m \in BirthdayMonths, d \in BirthdayDays}
    \cup {IsoDate(y, m, d) \o <<"T">> \o c \o z :
            y \in BirthdayYears, m \in BirthdayMonths, d \in BirthdayDays,
            c \in BirthdayClocks, z \in {<<>>, <<"Z">>, <<"+", "0", "1", ":", "0", "0">>}}
    \cup {SP \o IsoDate(y, m, d) \o SP : y \in BirthdayYears, m \in {1, 2}, d \in {1, 29}}
    \cup {SP \o IsoDate(y, m, d) \o <<"T">> \o c \o <<"+", "0", "1", ":", "0", "0">> \o SP :
            y \in BirthdayYears, m \in {1, 2}, d \in {1, 29}, c \in BirthdayClocks}
    \cup {SP \o MonthDayDashed(m, d) : m \in {1, 2}, d \in {1, 29}}
    \cup {<<>>, SP, <<"i", "n", "v", "a", "l", "i", "d">>,
          <<"1", "9", "9", "0", "-", "1", "-", "5">>,
          <<"1", "9", "9", "0", "/", "0", "1", "/", "1", "5">>,
          <<"-", "-", "1", "-", "5">>}

\* a BDAY value is parsed and the birthday is formatted for display
InitBirthday ==
    /\ mode = "birthday"
    /\ InitView
    /\ disk = <<>>
    /\ contact = EmptyContact
    /\ filter = <<>>
    /\ list = <<>>
    /\ reverse = FALSE
    /\ arg \in [birthday : BirthdayStrings, currentYear : CurrentYears]

NextBirthday == ParseBirthday \/ PrintBirthday

SpecBirthday == InitBirthday /\ [][NextBirthday]_vars

\* the parameter names of an EMAIL or TEL field other than TYPE
ParamNames ==
    {<<"H", "O", "M", "E">>, <<"w", "o", "r", "k">>, <<"V", "O", "I", "C", "E">>,
     <<"P", "R", "E", "F">>, <<"X">>}
\* the values of a TYPE parameter
TypeValues ==
    {<< <<"h", "o", "m", "e">> >>,
     << <<"W", "o", "r", "k">>, <<"p", "r", "e", "f">> >>,
     << <<"C", "E", "L", "L">> >>,
     << <<"x">>, <<"H", "O", "M", "E">> >>}

\* the parameter maps: any of the names, each with one empty value, with or
\* without a TYPE parameter
ParamMaps ==
    {[n \in K |-> << <<>> >>] : K \in SUBSET ParamNames}
    \cup {[n \in K \cup {ParamType} |-> IF n = ParamType THEN v ELSE << <<>> >>] :
            K \in SUBSET ParamNames, v \in TypeValues}

\* a call of getFieldType on the parameters of one field
InitType ==
    /\ mode = "type"
    /\ InitView
    /\ disk = <<>>
    /\ contact = <<>>
    /\ filter = <<>>
    /\ list = <<>>
    /\ reverse = FALSE
    /\ arg \in [params : ParamMaps]

NextType == GetFieldType

SpecType == InitType /\ [][NextType]_vars

\* two evaluations of getFieldType on the parameters of one field
NextTypeTwice == GetFieldType \/ GetFieldTypeAgain

SpecTypeTwice == InitType /\ [][NextTypeTwice]_vars

\* what the components of an ADR value are filled with: post office box,
\* extended address, street, locality, region, postal code, country, and
\* text after the country
AddressTexts ==
    << <<"P", "O", " ", "9">>, <<"A", "p", "t", " ", "2">>, <<"1", " ", "M", "a", "i", "n">>,
       <<"U", "l", "m">>, <<"B", "Y">>, <<"8", "9">>, <<"D", "E">> >>
AddressText(i) == IF i <= Len(AddressTexts) THEN AddressTexts[i] ELSE <<"Z">>

\* the ADR values: up to MaxParts components, each one empty or filled
AddressComponents ==
    UNION {{[i \in 1..n |-> IF i \in F THEN AddressText(i) ELSE <<>>] : F \in SUBSET (1..n)} :
             n \in 1..MaxParts}

\* a call of formatAddress on one ADR value; arg.components is how the value
\* was written
InitAddress ==
    /\ mode = "address"
    /\ InitView
    /\ disk = <<>>
    /\ contact = <<>>
    /\ filter = <<>>
    /\ list = <<>>
    /\ reverse = FALSE
    /\ \E cs \in AddressComponents :
          arg = [address |-> Join(cs, <<";">>), components |-> cs]

NextAddress == FormatAddress

SpecAddress == InitAddress /\ [][NextAddress]_vars

\* the contacts an export is run on
ExportPool ==
    {[EmptyContact EXCEPT !.Name = <<"A", "l">>, !.FamilyName = <<"D", "o", "e">>,
                          !.Emails = <<[Value |-> <<"a", "@", "x">>, Type |-> <<"H", "O", "M", "E">>],
                                       [Value |-> <<"b", "@", "x">>, Type |-> <<>>]>>,
                          !.Phones = <<[Value |-> <<"1", "2">>, Type |-> <<"C", "E", "L", "L">>]>>,
                          !.Organization = <<"A", "c", "m", "e">>,
                          !.Note = <<"n", ",", "1">>,
                          !.Address = <<"U", "l", "m", ",", " ", "D", "E">>,
                          !.Birthday = [ZeroTime EXCEPT !.year = 1990, !.month = 3, !.day = 5],
                          !.FileName = <<"a", ".", "v", "c", "f">>],
     [EmptyContact EXCEPT !.Name = <<"B", "o">>,
                          !.Phones = <<[Value |-> <<"3">>, Type |-> <<>>],
                                       [Value |-> <<"4">>, Type |-> <<"W", "O", "R", "K">>]>>,
                          !.Birthday = [ZeroTime EXCEPT !.year = 2000, !.sec = 37800,
                                                        !.nsec = 500000000]],
     EmptyContact}

\* what vcard.LoadContacts returns: an error, or the contacts of the paths
\* (none when no path is configured)
LoadOutcomes ==
    {[contacts |-> <<>>, err |-> TRUE]}
    \cup {[contacts |-> cs, err |-> FALSE] : cs \in SeqsUpTo(ExportPool, MaxExported)}

OutputNames == {"out"}

\* the values of the --delimiter flag
Delimiters ==
    {<<>>, <<",">>, <<";", ";">>, <<"|">>, <<"\"">>, <<"U+00A7">>, <<"U+20AC", ",">>}

\* what is at an output path: nothing, a file, or nothing in a directory
\* that does not exist
OldDoc == [format |-> "old"]
DiskEntries == {NoFile, [kind |-> "file", content |-> OldDoc],
                [kind |-> "nodir", content |-> NoDoc]}

\* a call of ExportContacts; arg.disk is the files before the call
InitExport ==
    /\ mode = "export"
    /\ InitView
    /\ contact = <<>>
    /\ list = <<>>
    /\ reverse = FALSE
    /\ filter \in {<<>>, << <<"a", "l">> >>, << <<"A", "c">>, <<"n">> >>, << <<"z", "z">> >>}
    /\ disk \in [OutputNames -> DiskEntries]
    /\ arg \in [loaded : LoadOutcomes,
                format : {"csv", "json", "xml"},
                delimiter : Delimiters,
                output : {""} \cup OutputNames,
                disk : {disk}]

NextExport == RunExport

SpecExport == InitExport /\ [][NextExport]_vars

\* the contacts a birthday listing is run on
BirthdayPool ==
    {[EmptyContact EXCEPT !.Name = <<"A", "l">>,
                          !.Birthday = [ZeroTime EXCEPT !.year = 1990, !.month = 3, !.day = 5]],
     [EmptyContact EXCEPT !.Name = <<"A", "l", " ", "B">>,
                          !.Birthday = [ZeroTime EXCEPT !.year = 2000, !.month = 3, !.day = 1]],
     [EmptyContact EXCEPT !.Name = <<"B", "o">>,
                          !.Birthday = [ZeroTime EXCEPT !.year = 1985, !.month = 12, !.day = 20]],
     [EmptyContact EXCEPT !.Name = <<"A", "l", "f">>],
     [EmptyContact EXCEPT !.Name = <<"C", "y">>]}

\* what vcard.LoadContacts returns to a birthday listing
BirthdayLoadOutcomes ==
    {[contacts |-> <<>>, err |-> TRUE]}
    \cup {[contacts |-> cs, err |-> FALSE] : cs \in SeqsUpTo(BirthdayPool, MaxContacts)}

\* a call of GetBirthdayContacts
InitBirthdays ==
    /\ mode = "birthdays"
    /\ InitView
    /\ disk = <<>>
    /\ contact = <<>>
    /\ list = <<>>
    /\ reverse \in BOOLEAN
    /\ filter \in {<<>>, << <<"a", "l">> >>, << <<"z", "z">> >>}
    /\ arg \in [loaded : BirthdayLoadOutcomes]

NextBirthdays == GetBirthdayContacts

SpecBirthdays == InitBirthdays /\ [][NextBirthdays]_vars

\* two calls of GetAddressBookPaths on one validated configuration
InitPaths ==
    /\ mode = "paths"
    /\ pc = "call"
    /\ fs \in FileSystems
    /\ config \in Configs
    /\ ~Validate(fs, config)
    /\ command = "list"
    /\ paths = <<>>
    /\ pathIdx = 1
    /\ contacts = <<>>
    /\ loadErrors = <<>>
    /\ pathResults = <<>>
    /\ result = NoResult
    /\ exitCode = -1
    /\ output = NoOutput
    /\ NoView

NextPaths == GetAddressBookPathsCall \/ GetAddressBookPathsAgain

SpecPaths == InitPaths /\ [][NextPaths]_vars

----------------------------------------------------------------------------
(* Claims about the aggregator and the command run *)

\* a path loads when it exists and one of its .vcf files decodes, without
\* error, to at least one card block
PathLoads(d) ==
    /\ d.exists
    /\ \E j \in DOMAIN d.files : d.files[j].vcf /\ ~d.files[j].err /\ d.files[j].cards > 0

\* the contacts loadContactsFromPath returned for the paths it did not fail on
LoadedContacts ==
    Concat([i \in DOMAIN pathResults |->
              IF pathResults[i].err THEN <<>> ELSE pathResults[i].contacts])

\* C1: for a non-empty list of paths, LoadContacts returns an error iff every
\* path failed, and then no contacts; if a path loads, it returns success
\* with exactly the contacts of the successful paths.
C1_ErrorIffEveryPathFailed ==
    (mode = "api" /\ pc = "done" /\ Len(paths) > 0) =>
        LET everyFailed == \A i \in DOMAIN paths : ~PathLoads(fs[paths[i]])
        IN  /\ result.err <=> everyFailed
            /\ result.err => result.contacts = <<>>
            /\ ~everyFailed => result.contacts = LoadedContacts
            /\ \A i \in DOMAIN paths : pathResults[i].err <=> ~PathLoads(fs[paths[i]])

\* a failed path before a path that loads: the load succeeds with contacts
C1_Witness ==
    /\ mode = "api"
    /\ pc = "done"
    /\ Len(paths) = 2
    /\ pathResults[1].err
    /\ ~pathResults[2].err
    /\ ~result.err
    /\ result.contacts = pathResults[2].contacts
    /\ result.contacts # <<>>

\* C2: a file whose decoding hits an error, or that holds no card block, is
\* skipped: it contributes no contact to the result of its path, and every
\* other .vcf file of the path contributes all of its cards.
C2_FailedFileContributesNothing ==
    \A i \in DOMAIN pathResults :
        ~pathResults[i].err =>
            LET d == fs[paths[i]]
                got == Range(pathResults[i].contacts)
            IN  /\ \A c \in got :
                       LET f == d.files[c.FileName[2]]
                       IN  f.vcf /\ ~f.err /\ f.cards > 0
                /\ \A j \in DOMAIN d.files :
                       (d.files[j].vcf /\ ~d.files[j].err) =>
                           \A k \in 1..d.files[j].cards : Contact(paths[i], j, k) \in got

\* C3: the result is the concatenation, in path-list order, of the contacts
\* of each successful path, each in file encounter order, without
\* deduplication: a contact appears once for each listing of its path.
C3_ConcatenationInPathOrder ==
    (mode = "api" /\ pc = "done" /\ ~result.err) =>
        LET rc == result.contacts
            len(i) == IF pathResults[i].err THEN 0 ELSE Len(pathResults[i].contacts)
            offset(i) == SumSeq([h \in 1..(i - 1) |-> len(h)])
        IN  /\ Len(rc) = SumSeq([i \in DOMAIN pathResults |-> len(i)])
            /\ \A i \in DOMAIN pathResults :
                   \A k \in 1..len(i) : rc[offset(i) + k] = pathResults[i].contacts[k]
            /\ \A i \in DOMAIN pathResults :
                   \A k, l \in 1..len(i) :
                       LET a == pathResults[i].contacts[k]
                           b == pathResults[i].contacts[l]
                       IN  k < l =>
                             \/ a.FileName[2] < b.FileName[2]
                             \/ a.FileName[2] = b.FileName[2] /\ a.card < b.card
            /\ \A c \in Range(rc) :
                   Cardinality({k \in DOMAIN rc : rc[k] = c})
                     = Cardinality({i \in DOMAIN paths : paths[i] = c.FileName[1]})

\* one directory listed twice: each of its contacts is returned twice
C3_Witness ==
    /\ mode = "api"
    /\ pc = "done"
    /\ Len(paths) = 2
    /\ paths[1] = paths[2]
    /\ ~result.err
    /\ Len(pathResults[1].contacts) > 0
    /\ result.contacts = pathResults[1].contacts \o pathResults[1].contacts

\* the configured paths that do not exist
MissingBooks == {b \in DOMAIN config : config[b] # EmptyPath /\ ~fs[config[b]].exists}

\* the configured paths that hold a decodable contact
ValidBooks == {b \in DOMAIN config : config[b] # EmptyPath /\ PathLoads(fs[config[b]])}

\* the contacts of the fully decoded .vcf files of the valid configured paths
ValidContacts ==
    {c \in UNION {{Contact(config[b], j, k) : j \in 1..MaxFiles, k \in 1..MaxCards} :
                    b \in ValidBooks} :
        LET d == fs[c.FileName[1]]
        IN  /\ c.FileName[2] \in DOMAIN d.files
            /\ d.files[c.FileName[2]].vcf
            /\ ~d.files[c.FileName[2]].err
            /\ c.card <= d.files[c.FileName[2]].cards}

----------------------------------------------------------------------------
(* Claims about the filter *)

\* the searched parts of a contact, in order: Name if present, each email's
\* value and its type if present, each phone's likewise, then Organization,
\* Note and Address if present
RECURSIVE EntryParts(_)
EntryParts(entries) ==
    IF entries = <<>> THEN <<>>
    ELSE <<Head(entries).Value>>
           \o (IF Head(entries).Type # <<>> THEN <<Head(entries).Type>> ELSE <<>>)
           \o EntryParts(Tail(entries))

SearchParts(c) ==
    SelectSeq(<<c.Name>>, LAMBDA x : x # <<>>)
      \o EntryParts(c.Emails)
      \o EntryParts(c.Phones)
      \o SelectSeq(<<c.Organization, c.Note, c.Address>>, LAMBDA x : x # <<>>)

\* C5: Matches is true for an empty term list, and otherwise exactly when the
\* terms, joined by single spaces and lowercased, are a contiguous substring
\* of the lowercased, space-separated, trimmed blob of the contact's parts;
\* the letter case of the terms does not change the result.
C5_ContiguousSubstring ==
    (mode = "filter" /\ pc = "done") =>
        LET blob == TrimSpace(ToLower(Join(SearchParts(contact), SP)))
            phrase == ToLower(Join(filter, SP))
        IN  /\ filter = <<>> => ret.val = TRUE
            /\ filter # <<>> => (ret.val <=> Contains(blob, phrase))
            /\ ret.val = matchesFilter(contact, [i \in DOMAIN filter |-> ToUpper(filter[i])])
            /\ ret.val = matchesFilter(contact, [i \in DOMAIN filter |-> ToLower(filter[i])])

\* a two-word filter in another letter case, matched by the adjacent words of the name
C5_Witness ==
    /\ mode = "filter"
    /\ pc = "done"
    /\ contact.Name = <<"A", "l", " ", "b", "O">>
    /\ filter = << <<"A", "L">>, <<"b", "o">> >>
    /\ buildContactSearchText(contact) = <<"a", "l", " ", "b", "o">>
    /\ ret.val = TRUE

----------------------------------------------------------------------------
(* Claims about the sort key and the display name *)

\* C6: SortKey is FamilyName lowercased when FamilyName is present (even
\* when Organization is set); else Organization lowercased when Organization
\* and Name are both present; else Name lowercased when Name is present; else
\* the empty string; it never holds an upper-case letter.
C6_SortKeyPrecedence ==
    (mode = "name" /\ pc = "done" /\ ret.op = "extractSortKey") =>
        LET c == contact
            hasFamily == c.FamilyName # <<>>
            hasOrg == c.Organization # <<>> /\ c.Name # <<>>
        IN  /\ hasFamily => ret.val = ToLower(c.FamilyName)
            /\ (~hasFamily /\ hasOrg) => ret.val = ToLower(c.Organization)
            /\ (~hasFamily /\ ~hasOrg /\ c.Name # <<>>) => ret.val = ToLower(c.Name)
            /\ (~hasFamily /\ c.Name = <<>>) => ret.val = <<>>
            /\ \A i \in DOMAIN ret.val : ret.val[i] \notin UpperSet

\* a contact with a family name, a formatted name and an organization: the
\* key is the family name
C6_Witness ==
    /\ mode = "name"
    /\ pc = "done"
    /\ ret.op = "extractSortKey"
    /\ contact.FamilyName = <<"D", "o", "e">>
    /\ contact.Organization # <<>>
    /\ contact.Name # <<>>
    /\ ret.val = <<"d", "o", "e">>

\* the secondary group of a display name: prefix, given, middle, suffix
SecondaryGroup(c) ==
    Join(SelectSeq(<<c.Prefix, c.GivenName, c.MiddleName, c.Suffix>>,
                   LAMBDA x : x # <<>>), SP)

\* C7: when FamilyName or GivenName is present, DisplayName is
\* "<family>, <prefix given middle suffix>", the secondary group alone when
\* FamilyName is absent, FamilyName alone when the group is empty; when
\* neither is present it is Name (empty if Name is absent).
C7_DisplayName ==
    (mode = "name" /\ pc = "done" /\ ret.op = "formatNameForDisplay") =>
        LET c == contact
            group == SecondaryGroup(c)
        IN  IF c.FamilyName # <<>> \/ c.GivenName # <<>>
            THEN /\ (c.FamilyName # <<>> /\ group # <<>>) =>
                        ret.val = c.FamilyName \o <<",", " ">> \o group
                 /\ c.FamilyName = <<>> => ret.val = group
                 /\ group = <<>> => ret.val = c.FamilyName
            ELSE ret.val = c.Name

\* all five components present: "Doe, Dr. Al Q Jr"
C7_Witness ==
    /\ mode = "name"
    /\ pc = "done"
    /\ ret.op = "formatNameForDisplay"
    /\ contact.Name # <<>>
    /\ ret.val = <<"D", "o", "e", ",", " ", "D", "r", ".", " ", "A", "l", " ", "Q", " ", "J", "r">>

----------------------------------------------------------------------------
(* Claims about the sorts *)

SortKeys(s) == {extractSortKey(s[i]) : i \in DOMAIN s}

\* C8: after SortByKey the sequence is a permutation of its input, every
\* contact unchanged, with the sort keys non-decreasing, or non-increasing
\* when reverse is set.
C8_SortedPermutation ==
    (mode = "sort" /\ pc = "done" /\ ret.op = "sortContacts") =>
        /\ Len(ret.val) = Len(list)
        /\ BagOfSeq(ret.val) = BagOfSeq(list)
        /\ \A i \in 1..(Len(ret.val) - 1) :
              LET here == extractSortKey(ret.val[i])
                  next == extractSortKey(ret.val[i + 1])
              IN  IF reverse THEN ~StrLess(here, next) ELSE ~StrLess(next, here)

\* a reverse sort of three contacts that were in ascending order
C8_Witness ==
    /\ mode = "sort"
    /\ pc = "done"
    /\ ret.op = "sortContacts"
    /\ reverse
    /\ Len(list) = 3
    /\ StrLess(extractSortKey(list[1]), extractSortKey(list[2]))
    /\ StrLess(extractSortKey(list[2]), extractSortKey(list[3]))
    /\ ret.val = <<list[3], list[2], list[1]>>

\* C9: SortByKey is stable: contacts with equal sort keys keep their
\* relative input order, in ascending and in reverse mode.
C9_Stable ==
    (mode = "sort" /\ pc = "done" /\ ret.op = "sortContacts") =>
        \A key \in SortKeys(list) :
            SelectSeq(ret.val, LAMBDA c : extractSortKey(c) = key)
              = SelectSeq(list, LAMBDA c : extractSortKey(c) = key)

\* C10: after SortByBirthday, for either value of reverse, every contact
\* with an absent birthday is after every contact with a present birthday.
C10_AbsentBirthdaysLast ==
    (mode = "sort" /\ pc = "done" /\ ret.op = "sortContactsByBirthday") =>
        /\ BagOfSeq(ret.val) = BagOfSeq(list)
        /\ \A i, j \in DOMAIN ret.val :
              (IsZero(ret.val[i].Birthday) /\ ~IsZero(ret.val[j].Birthday)) => j < i

\* a reverse birthday sort of a slice that starts with an absent birthday
C10_Witness ==
    /\ mode = "sort"
    /\ pc = "done"
    /\ ret.op = "sortContactsByBirthday"
    /\ reverse
    /\ Len(list) = 3
    /\ IsZero(list[1].Birthday)
    /\ ~IsZero(list[2].Birthday)
    /\ ~IsZero(list[3].Birthday)
    /\ IsZero(ret.val[3].Birthday)

\* the position of a birthday within a year
MonthDay(t) == t.month * 100 + t.day

\* C11: among the contacts with a present birthday, SortByBirthday orders by
\* month and then by day, ascending without reverse and descending with
\* reverse; the year of a birthday plays no part in the order.
C11_MonthThenDay ==
    (mode = "sort" /\ pc = "done" /\ ret.op = "sortContactsByBirthday") =>
        \A i, j \in DOMAIN ret.val :
            (i < j /\ ~IsZero(ret.val[i].Birthday) /\ ~IsZero(ret.val[j].Birthday)) =>
                IF reverse
                THEN MonthDay(ret.val[i].Birthday) >= MonthDay(ret.val[j].Birthday)
                ELSE MonthDay(ret.val[i].Birthday) <= MonthDay(ret.val[j].Birthday)

\* an ascending birthday sort that puts a later year before an earlier one
C11_Witness ==
    /\ mode = "sort"
    /\ pc = "done"
    /\ ret.op = "sortContactsByBirthday"
    /\ ~reverse
    /\ Len(ret.val) = 3
    /\ \A i \in 1..3 : ~IsZero(ret.val[i].Birthday)
    /\ ret.val[1].Birthday.month = ret.val[2].Birthday.month
    /\ ret.val[1].Birthday.day < ret.val[2].Birthday.day
    /\ ret.val[1].Birthday.year > ret.val[2].Birthday.year
    /\ ret.val[2].Birthday.day = ret.val[3].Birthday.day
    /\ ret.val[2].Birthday.year # ret.val[3].Birthday.year
    /\ list # ret.val

\* the calendar dates of the vocabulary, and the month-day pairs some year has
CalendarDates ==
    {ymd \in BirthdayYears \X BirthdayMonths \X BirthdayDays :
        ymd[2] \in 1..12 /\ ymd[3] \in 1..daysIn(ymd[2], ymd[1])}
CalendarMonthDays ==
    {md \in BirthdayMonths \X BirthdayDays :
        md[1] \in 1..12 /\ \E y \in BirthdayYears : md[2] \in 1..daysIn(md[1], y)}
\* the times of day of the vocabulary that are written hh:mm:ss
CalendarClocks == {c \in BirthdayClocks : Len(c) = 8 /\ atoi(SubSeq(c, 1, 2)) < 24}

\* str is an accepted year-unknown form of a month and a day that exist
IsYearUnknown(str) ==
    \E md \in CalendarMonthDays :
        str \in {MonthDayDashed(md[1], md[2]), MonthDayCompact(md[1], md[2])}

\* str is one of the six accepted forms of a date that exists
IsAccepted(str) ==
    \/ IsYearUnknown(str)
    \/ \E ymd \in CalendarDates :
          \/ str \in {IsoDate(ymd[1], ymd[2], ymd[3]), CompactDate(ymd[1], ymd[2], ymd[3])}
          \/ \E c \in CalendarClocks :
                str \in {IsoDate(ymd[1], ymd[2], ymd[3]) \o <<"T">> \o c,
                         IsoDate(ymd[1], ymd[2], ymd[3]) \o <<"T">> \o c \o <<"Z">>}

\* C12: a BDAY value in an accepted form that denotes a date of the calendar
\* is parsed into a birthday every consumer takes as present (IsZero is
\* false, the display text is not empty); an absent birthday comes from an
\* empty or unparseable value only.
C12_ValidDateIsPresent ==
    (mode = "birthday" /\ pc = "done" /\ IsAccepted(TrimSpace(arg.birthday))) =>
        /\ ~IsZero(contact.Birthday)
        /\ ret.val # <<>>

C14_IsoRoundTrip ==
    (mode = "birthday" /\ pc = "done") =>
        \A ymd \in CalendarDates :
            (TrimSpace(arg.birthday) = IsoDate(ymd[1], ymd[2], ymd[3])
                /\ ymd[1] # arg.currentYear) =>
                    ret.val = FormatInt(ymd[2], 2) \o <<"/">> \o FormatInt(ymd[3], 2)
                                  \o <<"/">> \o FormatInt(ymd[1], 4)

\* the legacy parameters a parameter map holds, uppercased
LegacyFlags(params) == {ToUpper(n) : n \in DOMAIN params} \cap LegacyTypes

\* C15: the type of an EMAIL or TEL field is the first value of its TYPE
\* parameter, uppercased, when it has one, whatever legacy parameters it has
\* besides; otherwise an uppercased legacy parameter of the vocabulary when
\* it has one; otherwise the empty string.
C15_FieldType ==
    (mode = "type" /\ pc = "done") =>
        IF ParamType \in DOMAIN arg.params
        THEN ret.val = ToUpper(arg.params[ParamType][1])
        ELSE IF LegacyFlags(arg.params) # {}
             THEN ret.val \in LegacyFlags(arg.params)
             ELSE ret.val = <<>>

\* TYPE=home next to the legacy parameter VOICE gives HOME
C15_Witness ==
    /\ mode = "type"
    /\ pc = "done"
    /\ DOMAIN arg.params = {ParamType, <<"V", "O", "I", "C", "E">>}
    /\ arg.params[ParamType] = << <<"h", "o", "m", "e">> >>
    /\ ret.val = <<"H", "O", "M", "E">>

\* the components of an ADR value from the street to the country that are
\* there and not empty, in order
KeptComponents(cs) ==
    SelectSeq(SubSeq(cs, 3, IF Len(cs) < 7 THEN Len(cs) ELSE 7), LAMBDA x : x # <<>>)

\* C16: formatAddress returns the street, locality, region, postal code and
\* country of the ADR value (components 2..6, counted from 0) in that order,
\* without the empty and the missing ones, joined by ", "; the post office
\* box and the extended address are not in the result, and an address with
\* none of the five yields the empty string.
C16_FormatAddress ==
    (mode = "address" /\ pc = "done") =>
        /\ ret.val = Join(KeptComponents(arg.components), <<",", " ">>)
        /\ ~Contains(ret.val, AddressText(1))
        /\ ~Contains(ret.val, AddressText(2))
        /\ KeptComponents(arg.components) = <<>> => ret.val = <<>>

\* a post office box, an extended address, a street, no locality, a region
C16_Witness ==
    /\ mode = "address"
    /\ pc = "done"
    /\ arg.address = <<"P", "O", " ", "9", ";", "A", "p", "t", " ", "2", ";",
                       "1", " ", "M", "a", "i", "n", ";", ";", "B", "Y">>
    /\ ret.val = <<"1", " ", "M", "a", "i", "n", ",", " ", "B", "Y">>

----------------------------------------------------------------------------
(* Claims about the export *)

\* the document an export wrote: on os.Stdout or in the output file
ExportedDoc == IF arg.output = "" THEN ret.stdout ELSE disk[arg.output].content

\* one entry of a multi-valued field, and the entries of the field
EntryText(e) ==
    IF e.Type = <<>> THEN e.Value
    ELSE e.Value \o <<" ", "(">> \o ToLower(e.Type) \o <<")">>
EntriesText(entries) == Join([i \in DOMAIN entries |-> EntryText(entries[i])], <<";", " ">>)

\* C17: a CSV export writes the header row Name, Emails, Phones,
\* Organization, Note, Address and then one record of six fields for each
\* contact, in the order of the contacts; the emails and the phones are
\* listed in stored order as "<value> (<lowercased type>)", or "<value>"
\* without a type, joined by "; ", and are the empty string without entries.
C17_CsvRecords ==
    (mode = "export" /\ pc = "done" /\ arg.format = "csv" /\ ret.err = "") =>
        /\ ExportedDoc.format = "csv"
        /\ Len(ExportedDoc.records) = Len(list) + 1
        /\ ExportedDoc.records[1] =
               << <<"N", "a", "m", "e">>, <<"E", "m", "a", "i", "l", "s">>,
                  <<"P", "h", "o", "n", "e", "s">>,
                  <<"O", "r", "g", "a", "n", "i", "z", "a", "t", "i", "o", "n">>,
                  <<"N", "o", "t", "e">>, <<"A", "d", "d", "r", "e", "s", "s">> >>
        /\ \A i \in DOMAIN list :
              ExportedDoc.records[i + 1] =
                  <<list[i].Name, EntriesText(list[i].Emails), EntriesText(list[i].Phones),
                    list[i].Organization, list[i].Note, list[i].Address>>

\* two contacts exported to a new file: the first with a typed and an
\* untyped email, the second with no email
C17_Witness ==
    /\ mode = "export"
    /\ pc = "done"
    /\ arg.format = "csv"
    /\ arg.output = "out"
    /\ ret.err = ""
    /\ Len(list) = 2
    /\ Len(disk["out"].content.records) = 3
    /\ disk["out"].content.records[2][2] =
           <<"a", "@", "x", " ", "(", "h", "o", "m", "e", ")", ";", " ", "b", "@", "x">>
    /\ disk["out"].content.records[3][1] = <<"B", "o">>
    /\ disk["out"].content.records[3][2] = <<>>

\* json.Unmarshal into []vcard.Contact, as TestExportJSON reads an export back
unmarshalTime(str) == Parse(LayoutDateTimeZ, str).time
unmarshalEntries(v) ==
    IF v.kind = "null" THEN <<>>
    ELSE [i \in DOMAIN v.elems |->
            [Value |-> v.elems[i].fields.Value.val, Type |-> v.elems[i].fields.Type.val]]
unmarshalContact(v) ==
    [Name |-> v.fields.Name.val, FamilyName |-> v.fields.FamilyName.val,
     GivenName |-> v.fields.GivenName.val, MiddleName |-> v.fields.MiddleName.val,
     Prefix |-> v.fields.Prefix.val, Suffix |-> v.fields.Suffix.val,
     Emails |-> unmarshalEntries(v.fields.Emails),
     Phones |-> unmarshalEntries(v.fields.Phones),
     Organization |-> v.fields.Organization.val, Note |-> v.fields.Note.val,
     Address |-> v.fields.Address.val,
     Birthday |-> unmarshalTime(v.fields.Birthday.val),
     FileName |-> v.fields.FileName.val]
unmarshalContacts(v) ==
    IF v.kind = "null" THEN <<>> ELSE [i \in DOMAIN v.elems |-> unmarshalContact(v.elems[i])]

\* C18: a JSON export of any sequence of contacts, the empty one of no
\* configured path or of a filter that matches nothing included, is a JSON
\* array of one object per contact, in order, and decoding it gives back the
\* field values of the contacts.
C18_JsonArrayRoundTrip ==
    (mode = "export" /\ pc = "done" /\ arg.format = "json" /\ ret.err = "") =>
        /\ ExportedDoc.format = "json"
        /\ ExportedDoc.value.kind = "array"
        /\ Len(ExportedDoc.value.elems) = Len(list)
        /\ \A i \in DOMAIN list : ExportedDoc.value.elems[i].kind = "object"
        /\ unmarshalContacts(ExportedDoc.value) = list

\* C19: when the output path names a file that exists, ExportContacts
\* returns an error and the file keeps its content, whatever the format and
\* the filter.
C19_ExistingFileUntouched ==
    (mode = "export" /\ pc = "done" /\ arg.output # ""
        /\ arg.disk[arg.output].kind = "file") =>
            /\ ret.err # ""
            /\ disk = arg.disk

\* a JSON export with a filter that matches, to a file that exists
C19_Witness ==
    /\ mode = "export"
    /\ pc = "done"
    /\ arg.format = "json"
    /\ arg.output = "out"
    /\ arg.disk["out"].kind = "file"
    /\ filter # <<>>
    /\ list # <<>>
    /\ ret.err = "output file already exists"
    /\ disk["out"].content = OldDoc

\* C20: ExportContacts called with a format other than csv and json returns
\* the unsupported-format error before any I/O: no contacts were loaded and
\* no output file was created.
C20_UnsupportedBeforeIO ==
    (mode = "export" /\ pc = "done" /\ arg.format \notin {"csv", "json"}) =>
        /\ ret.err = "unsupported format"
        /\ ret.io = <<>>
        /\ disk = arg.disk

----------------------------------------------------------------------------
(* Claims about the birthday listing *)

\* C21: GetBirthdayContacts returns exactly the loaded contacts that match
\* the filter and have a present birthday, each as often as it was loaded,
\* none with an absent birthday, ordered by month and then day of the
\* birthday: ascending, or descending with reverse.
C21_BirthdayContacts ==
    (mode = "birthdays" /\ pc = "done" /\ ~ret.err) =>
        /\ BagOfSeq(ret.val) =
               BagOfSeq(SelectSeq(arg.loaded.contacts,
                                  LAMBDA c : matchesFilter(c, filter) /\ ~IsZero(c.Birthday)))
        /\ \A i \in DOMAIN ret.val : ~IsZero(ret.val[i].Birthday)
        /\ \A i, j \in DOMAIN ret.val :
              i < j => IF reverse
                       THEN MonthDay(ret.val[i].Birthday) >= MonthDay(ret.val[j].Birthday)
                       ELSE MonthDay(ret.val[i].Birthday) <= MonthDay(ret.val[j].Birthday)

\* a filter that drops the second of three contacts; the two that are left
\* are returned in the other order
C21_Witness ==
    /\ mode = "birthdays"
    /\ pc = "done"
    /\ ~ret.err
    /\ ~reverse
    /\ filter # <<>>
    /\ Len(arg.loaded.contacts) = 3
    /\ ~matchesFilter(arg.loaded.contacts[2], filter)
    /\ ~IsZero(arg.loaded.contacts[2].Birthday)
    /\ ret.val = <<arg.loaded.contacts[3], arg.loaded.contacts[1]>>
    /\ ret.val[1].Birthday.day < ret.val[2].Birthday.day

----------------------------------------------------------------------------
(* Claims about parseBirthday *)

\* C22: a BDAY value --MM-DD or --MMDD of a month and a day that exist is
\* parsed into a birthday of month MM and day DD, whatever the current year
\* is, 02-29 included.
C22_MonthDayKept ==
    (mode = "birthday" /\ pc \in {"parsed", "done"}) =>
        \A md \in CalendarMonthDays :
            TrimSpace(arg.birthday) \in {MonthDayDashed(md[1], md[2]),
                                         MonthDayCompact(md[1], md[2])} =>
                /\ contact.Birthday.month = md[1]
                /\ contact.Birthday.day = md[2]

\* the date of a time
DateOf(t) == <<t.year, t.month, t.day>>

\* str is a date of the calendar written in one of the four accepted forms
\* with a year
IsFullDate(str, ymd) ==
    \/ str \in {IsoDate(ymd[1], ymd[2], ymd[3]), CompactDate(ymd[1], ymd[2], ymd[3])}
    \/ \E c \in CalendarClocks :
          str \in {IsoDate(ymd[1], ymd[2], ymd[3]) \o <<"T">> \o c,
                   IsoDate(ymd[1], ymd[2], ymd[3]) \o <<"T">> \o c \o <<"Z">>}

\* C23: parseBirthday removes the white space around the value; the empty
\* string is absent; a value in one of the six accepted forms is the date it
\* denotes (of the current year for a year-unknown form); any other value
\* of at least 10 characters whose first 10 are a date YYYY-MM-DD is that
\* date, whatever follows; everything else is absent.
C23_ParseBirthday ==
    (mode = "birthday" /\ pc \in {"parsed", "done"}) =>
        LET str == TrimSpace(arg.birthday)
            b == contact.Birthday
        IN  IF str = <<>> THEN IsZero(b)
            ELSE IF \E ymd \in CalendarDates : IsFullDate(str, ymd)
            THEN \E ymd \in CalendarDates : IsFullDate(str, ymd) /\ DateOf(b) = ymd
            ELSE IF IsYearUnknown(str)
            THEN /\ ~IsZero(b)
                 /\ b.year = arg.currentYear
                 /\ \A md \in CalendarMonthDays :
                       str \in {MonthDayDashed(md[1], md[2]), MonthDayCompact(md[1], md[2])} =>
                           (b.month = md[1] /\ b.day = md[2])
            ELSE IF Len(str) >= 10
                    /\ \E ymd \in CalendarDates : SubSeq(str, 1, 10) = IsoDate(ymd[1], ymd[2], ymd[3])
            THEN \E ymd \in CalendarDates :
                    SubSeq(str, 1, 10) = IsoDate(ymd[1], ymd[2], ymd[3]) /\ DateOf(b) = ymd
            ELSE IsZero(b)

----------------------------------------------------------------------------
(* Claims about the CSV delimiter *)

\* C24: for every non-empty delimiter handed to a CSV export, the separator
\* of the header and of every record is the first character of the
\* delimiter, also when that character takes more than one byte.
C24_FirstCharacter ==
    (mode = "export" /\ pc = "done" /\ arg.format = "csv" /\ arg.delimiter # <<>>
        /\ ret.err \notin {"load", "output file already exists", "create"}) =>
            /\ ret.err = ""
            /\ ExportedDoc.Comma = CodePoint[arg.delimiter[1]]

----------------------------------------------------------------------------
(* Claims about GetAddressBookPaths *)

\* C25: for one configuration GetAddressBookPaths returns the paths in the
\* same order on every call, so that two loads of the configuration yield
\* the contacts in the same order.
C25_OrderStable ==
    (mode = "paths" /\ pc = "done") =>
        /\ ret.first = ret.second
        /\ ret.firstLoad = ret.secondLoad

----------------------------------------------------------------------------
(* Claims about repeated type resolution *)

\* C26: without a TYPE parameter and with two or more legacy flags,
\* getFieldType returns the same type on every evaluation of the same
\* parameters.
C26_SameType ==
    (mode = "type" /\ pc = "again"
        /\ ParamType \notin DOMAIN arg.params
        /\ Cardinality({n \in DOMAIN arg.params : ToUpper(n) \in LegacyTypes}) >= 2) =>
            ret.val = ret.first

----------------------------------------------------------------------------
(* Claims about loads without or with paths *)

\* C27: LoadContacts on an empty list of paths returns no error and no
\* contact, so that the birthday listing of an application without address
\* books is an empty result and not a failure.
C27_EmptyPaths ==
    (mode = "api" /\ pc = "done" /\ paths = <<>>) =>
        /\ result = [contacts |-> <<>>, err |-> FALSE]
        /\ \A rev \in BOOLEAN, terms \in {<<>>, << <<"a", "l">> >>} :
              GetBirthdayContactsResults(result, rev, terms)
                = {[err |-> FALSE, contacts |-> <<>>]}

C27_Witness ==
    /\ mode = "api"
    /\ pc = "done"
    /\ paths = <<>>
    /\ ~result.err
    /\ GetBirthdayContactsResults(result, FALSE, <<>>) = {[err |-> FALSE, contacts |-> <<>>]}


\* a file processVCardFile returns no error for
IsProcessed(f) == f.vcf /\ ~f.err /\ f.cards >= 1

\* C28: loadContactsFromPath fails exactly when the path does not exist, holds
\* no .vcf file or holds no file that was processed successfully, and
\* otherwise returns at least one contact; so a LoadContacts that succeeds on
\* a non-empty list of paths returns at least one contact.
C28_AtLeastOneContact ==
    mode = "api" =>
        /\ \A k \in DOMAIN pathResults :
              LET d == fs[paths[k]]
              IN  /\ pathResults[k].err
                        <=> (~d.exists \/ ~\E i \in DOMAIN d.files : IsProcessed(d.files[i]))
                  /\ ~pathResults[k].err => Len(pathResults[k].contacts) >= 1
        /\ (pc = "done" /\ paths # <<>> /\ ~result.err) => Len(result.contacts) >= 1

C28_Witness ==
    /\ mode = "api"
    /\ pc = "done"
    /\ Len(paths) = 2
    /\ pathResults[1].err
    /\ ~pathResults[2].err
    /\ \E i \in DOMAIN fs[paths[2]].files : fs[paths[2]].files[i].err
    /\ ~result.err
    /\ Len(result.contacts) >= 1

----------------------------------------------------------------------------
(* Claims about the fields the filter reads *)

----------------------------------------------------------------------------
(* Claims about empty sort keys *)

\* C30: the sort key of a contact is empty exactly when its family name and
\* its formatted name are both empty, whatever its given name and
\* organization are; in ascending order the contacts with an empty key come
\* before every contact with a key.
C30_EmptySortKey ==
    (mode = "sort" /\ pc = "done" /\ ret.op = "sortContacts") =>
        /\ \A k \in DOMAIN ret.val :
              extractSortKey(ret.val[k]) = <<>>
                <=> (ret.val[k].FamilyName = <<>> /\ ret.val[k].Name = <<>>)
        /\ ~reverse =>
              \A i, j \in DOMAIN ret.val :
                  (extractSortKey(ret.val[i]) = <<>> /\ extractSortKey(ret.val[j]) # <<>>)
                      => i < j

C30_Witness ==
    /\ mode = "sort"
    /\ pc = "done"
    /\ ret.op = "sortContacts"
    /\ ~reverse
    /\ Len(list) = 3
    /\ extractSortKey(list[1]) # <<>>
    /\ list[2].GivenName # <<>> /\ formatNameForDisplay(list[2]) # <<>>
    /\ extractSortKey(list[2]) = <<>>
    /\ list[3].Organization # <<>> /\ extractSortKey(list[3]) = <<>>
    /\ ret.val[3] = list[1]

====
